---- MODULE Spec2Model ----
(***************************************************************************)
(* LightingControl: schedule evaluation, assignment mapping, state         *)
(* reconciliation, switch-event history and the offset cache of            *)
(* controller.py (class LightingController).                               *)
(*                                                                         *)
(* Representation:                                                         *)
(*  - a time of day is a number of minutes in 0 .. MinutesPerDay-1;        *)
(*  - a date is a day number; day 0 is Monday 2025-12-29, so that the      *)
(*    modelled days cross a month and a year boundary;                     *)
(*  - a formatted date "YYYY-MM-DD" is the tuple <<y, m, d>> and a         *)
(*    formatted time "HH:MM:SS" the tuple <<h, m, s>>: the fields are      *)
(*    zero padded in the program, so comparing the strings is comparing    *)
(*    the tuples lexicographically (LexLess);                              *)
(*  - Python's None is the string None where a name is expected, and a     *)
(*    RandomOffset of None is 0 (the code tests "if offset_minutes");      *)
(*  - a dict is a sequence of <<key, value>> pairs in insertion order      *)
(*    where the code iterates over it, and a function otherwise.           *)
(***************************************************************************)
EXTENDS Integers, Sequences, FiniteSets, TLC

VARIABLES
    pc,            \* where the program is
    config,        \* SCConfigManager: the configuration in use
    config_file,   \* the content of the configuration file
    signal_at,     \* where run() was when SIGINT or SIGTERM arrived, None before
    webhook_args,  \* controller.webhook_args: the path of the last webhook request, None before
    today,         \* DateHelper.today(), a day number
    now,           \* DateHelper.now().time(), minutes since midnight
    dusk_dawn,     \* self.dusk_dawn
    offset_cache,  \* self.offset_cache
    result,        \* what the last call of _evaluate_schedule returned
    outputs,       \* self.shelly_control.outputs: the known outputs
    device,        \* the devices: state and online flag of outputs, state of inputs
    schedule_map,  \* self.schedule_map
    input_map,     \* self.input_map
    switch_states, \* self.switch_states
    switch_events, \* self.switch_events
    state_file,    \* the saved state file
    commands,      \* the change_output calls of the last reconciliation pass
    config_changed,\* the configuration file was modified since config_last_check
    pass_status,   \* how the last change_switch_states ended
    trimmed_from,  \* history variable: switch_events as the last _trim_switch_events found it
    dumped,        \* history variable: the offsets and events the last _save_state wrote
    wake_event,    \* self.wake_event: the flag of the threading.Event
    telemetry,     \* how the last viewer post and the last heartbeat ping ended
    wakes          \* history variable: the webhook calls and what the loop made of them

ctlVars == <<outputs, device, schedule_map, input_map, switch_states, switch_events,
             state_file, commands, config_changed, pass_status, trimmed_from, dumped,
             wake_event, telemetry, wakes, config_file, signal_at, webhook_args>>

loopVars == <<wake_event, telemetry, wakes, webhook_args>>

vars == <<pc, config, today, now, dusk_dawn, offset_cache, result, outputs, device,
          schedule_map, input_map, switch_states, switch_events, state_file, commands,
          config_changed, pass_status, trimmed_from, dumped, wake_event, telemetry, wakes,
          config_file, signal_at, webhook_args>>

(***************************************************************************)
(* Bounds of the model.                                                    *)
(***************************************************************************)
MaxEvents == 2     \* events per schedule
MaxJitter == 1     \* largest RandomOffset configured
MaxOutputs == 2    \* known outputs
MaxRules == 3      \* rules in LightingControl / InputControls
MaxDay == 2        \* the last day number the clock reaches
MaxLogged == 3       \* switch events in the history beyond which clock and devices stay as they are
MaxTriggers == 2     \* webhook calls handled in a run

MinStateFileBytes == 500

None == "None"
MinutesPerDay == 24 * 60
WEEKDAY_ABBREVIATIONS == <<"Mon", "Tue", "Wed", "Thu", "Fri", "Sat", "Sun">>

(***************************************************************************)
(* Dates and times.                                                        *)
(***************************************************************************)
\* date.isoformat() / DateHelper.format_date of day number d (-28 <= d <= 33)
DateStr(d) == IF d > 2 THEN <<2026, 1, d - 2>> ELSE <<2025, 12, 29 + d>>

\* WEEKDAY_ABBREVIATIONS[now.weekday()]
WeekdayStr(d) == WEEKDAY_ABBREVIATIONS[(d % 7) + 1]

\* a < b for two strings of zero-padded fields
LexLess(a, b) ==
    \E i \in 1..Len(a) : a[i] < b[i] /\ \A j \in 1..(i - 1) : a[j] = b[j]

\* (mutant: the sum is not taken back into the day)
AddMinutesNoWrap(t, m) == t + m

\* (datetime.combine(today, t) + timedelta(minutes = m)).time()
AddMinutes(t, m) == (t + m) % MinutesPerDay

\* A time spec of the configuration after tokenising: "HH:MM" is
\* [base |-> "clock", sign |-> "", hh, mm]; "dawn" / "dusk" followed by the
\* offset part: sign "" (none), "+" or "-" with two-digit hh and mm, or
\* "bad" when the part does not match ^([+-])(\d{2}):(\d{2})$.
Clock(h, m) == [base |-> "clock", sign |-> "", hh |-> h, mm |-> m]
Sun(b, s, h, m) == [base |-> b, sign |-> s, hh |-> h, mm |-> m]

\* the time spec parses: strptime "%H:%M", or the offset pattern
ValidTimeSpec(ts) ==
    IF ts.base = "clock"
    THEN ts.hh \in 0..23 /\ ts.mm \in 0..59
    ELSE ts.sign # "bad"

\* base_time of _parse_time, before any random offset
BaseTime(ts, dd) ==
    IF ts.base = "clock"
    THEN ts.hh * 60 + ts.mm
    ELSE LET total_minutes == ts.hh * 60 + ts.mm
         IN  CASE ts.sign = "+" -> AddMinutes(dd[ts.base], total_minutes)
               [] ts.sign = "-" -> AddMinutes(dd[ts.base], 0 - total_minutes)
               [] OTHER         -> dd[ts.base]

\* "YYYY-MM-DD|ScheduleName|EventIndex|Mode"
_generate_offset_key(schedule_name, event_index, mode, day) ==
    <<DateStr(day), schedule_name, event_index, mode>>

\* random.randint(-offset_minutes, offset_minutes)
RandInt(offset_minutes) == (0 - offset_minutes)..offset_minutes

\* (mutant: the offset is drawn again when the cache has it)
ParseTimeRedraw(time_str, offset_minutes, schedule_name, event_index, mode, cache, day, dd) ==
    IF ~ValidTimeSpec(time_str)
    THEN {[fatal |-> TRUE, time |-> 0, cache |-> cache]}
    ELSE LET base_time == BaseTime(time_str, dd)
             key == _generate_offset_key(schedule_name, event_index, mode, day)
         IN  IF offset_minutes # 0
             THEN {[fatal |-> FALSE,
                    time  |-> AddMinutes(base_time, delta),
                    cache |-> (key :> delta) @@ cache] :
                       delta \in RandInt(offset_minutes)}
             ELSE {[fatal |-> FALSE, time |-> base_time, cache |-> cache]}

(***************************************************************************)
(* _parse_time: the set of outcomes [fatal, time, cache] of one call: one  *)
(* outcome per value the random draw can take on a cache miss.             *)
(***************************************************************************)
_parse_time(time_str, offset_minutes, schedule_name, event_index, mode, cache, day, dd) ==
    IF ~ValidTimeSpec(time_str)
    THEN {[fatal |-> TRUE, time |-> 0, cache |-> cache]}
    ELSE LET base_time == BaseTime(time_str, dd)
             key == _generate_offset_key(schedule_name, event_index, mode, day)
         IN  IF offset_minutes # 0
             THEN IF key \in DOMAIN cache
                  THEN {[fatal |-> FALSE,
                         time  |-> AddMinutes(base_time, cache[key]),
                         cache |-> cache]}
                  ELSE {[fatal |-> FALSE,
                         time  |-> AddMinutes(base_time, delta),
                         cache |-> (key :> delta) @@ cache] :
                            delta \in RandInt(offset_minutes)}
             ELSE {[fatal |-> FALSE, time |-> base_time, cache |-> cache]}

(***************************************************************************)
(* _evaluate_schedule.                                                     *)
(***************************************************************************)
\* (mutant: no event is left out for its days)
NeverSkipped(event, weekday_str) == FALSE

\* days != "All" and weekday_str not in [d.strip() for d in days.split(",")]
\* DaysOfWeek is the sequence of the comma separated names; <<"All">> is "All"
DaySkipped(event, weekday_str) ==
    /\ event.DaysOfWeek # <<"All">>
    /\ \A i \in 1..Len(event.DaysOfWeek) : event.DaysOfWeek[i] # weekday_str

\* a DatesOff range: ok is FALSE when StartDate / EndDate is missing or is
\* no date (KeyError / TypeError: the range is logged and ignored)
DateRange(s, e) == [ok |-> TRUE, StartDate |-> s, EndDate |-> e]
BadRange == [ok |-> FALSE, StartDate |-> 0, EndDate |-> 0]

\* (mutant: the start date itself is not excluded)
InDatesOffAfterStart(event, day) ==
    \E i \in 1..Len(event.DatesOff) :
        LET rng == event.DatesOff[i]
        IN  rng.ok /\ rng.StartDate < day /\ day <= rng.EndDate

\* (mutant: a range that cannot be read ends the loop over the ranges)
BadRangeEndsLoop(event, day) ==
    \E i \in 1..Len(event.DatesOff) :
        LET rng == event.DatesOff[i]
        IN  /\ rng.ok /\ rng.StartDate <= day /\ day <= rng.EndDate
            /\ \A k \in 1..(i - 1) : event.DatesOff[k].ok

\* (mutant: no range switches the event off)
DatesOffIgnored(event, day) == FALSE

\* the loop over DatesOff reaches "return OFF"
InDatesOff(event, day) ==
    \E i \in 1..Len(event.DatesOff) :
        LET rng == event.DatesOff[i]
        IN  rng.ok /\ rng.StartDate <= day /\ day <= rng.EndDate

\* (mutant: the off-time is inside a same-day window)
WindowOnEq(on_time, off_time, t) ==
    IF on_time < off_time
    THEN on_time <= t /\ t <= off_time
    ELSE t >= on_time \/ t < off_time

\* (mutant: an overnight window needs both comparisons)
WindowOnAnd(on_time, off_time, t) ==
    IF on_time < off_time
    THEN on_time <= t /\ t < off_time
    ELSE t >= on_time /\ t < off_time

\* the window test on the resolved times
WindowOn(on_time, off_time, t) ==
    IF on_time < off_time
    THEN on_time <= t /\ t < off_time
    ELSE t >= on_time \/ t < off_time

Outcome(r, c) == [result |-> r, cache |-> c]

\* the loop of _evaluate_schedule from event i on (idx = i - 1): the set of
\* outcomes [result, cache]; result is "FATAL" when _parse_time ends the
\* process through log_fatal_error
RECURSIVE EvaluateFrom(_, _, _, _, _, _, _)
EvaluateFrom(schedule, i, t, weekday_str, day, dd, cache) ==
    IF i > Len(schedule.Events)
    THEN {Outcome("OFF", cache)}
    ELSE LET event == schedule.Events[i]
         IN  IF DaySkipped(event, weekday_str)
             THEN EvaluateFrom(schedule, i + 1, t, weekday_str, day, dd, cache)
             ELSE IF InDatesOff(event, day)
             THEN {Outcome("OFF", cache)}
             ELSE UNION {
                 IF on.fatal
                 THEN {Outcome("FATAL", on.cache)}
                 ELSE UNION {
                     IF off.fatal
                     THEN {Outcome("FATAL", off.cache)}
                     ELSE IF WindowOn(on.time, off.time, t)
                     THEN {Outcome("ON", off.cache)}
                     ELSE EvaluateFrom(schedule, i + 1, t, weekday_str, day, dd, off.cache) :
                         off \in _parse_time(event.TurnOff, event.RandomOffset,
                                             schedule.Name, i - 1, "Off", on.cache, day, dd)} :
                     on \in _parse_time(event.TurnOn, event.RandomOffset,
                                        schedule.Name, i - 1, "On", cache, day, dd)}

_evaluate_schedule(schedule, t, weekday_str, day, dd, cache) ==
    EvaluateFrom(schedule, 1, t, weekday_str, day, dd, cache)

(***************************************************************************)
(* Dicts in insertion order.                                               *)
(***************************************************************************)
DictHas(d, k) == \E i \in 1..Len(d) : d[i][1] = k

\* d.get(k)
DictGet(d, k) ==
    IF DictHas(d, k) THEN d[CHOOSE i \in 1..Len(d) : d[i][1] = k][2] ELSE None

\* d[k] = v
DictSet(d, k, v) ==
    IF DictHas(d, k)
    THEN [i \in 1..Len(d) |-> IF d[i][1] = k THEN <<k, v>> ELSE d[i]]
    ELSE Append(d, <<k, v>>)

DictKeys(d) == { d[i][1] : i \in 1..Len(d) }

\* Python's truth value of a name
Truthy(v) == v # None /\ v # ""

(***************************************************************************)
(* _map_schedules_to_outputs.                                              *)
(***************************************************************************)
\* assignments[name] = None for the first n outputs
RECURSIVE Unassigned(_, _)
Unassigned(outs, n) ==
    IF n = 0 THEN << >> ELSE DictSet(Unassigned(outs, n - 1), outs[n].Name, None)

\* group_map.get(target, []): the names of the first n outputs in the group
RECURSIVE GroupMembers(_, _, _)
GroupMembers(outs, group, n) ==
    IF n = 0
    THEN << >>
    ELSE IF Truthy(outs[n].Group) /\ outs[n].Group = group
         THEN Append(GroupMembers(outs, group, n - 1), outs[n].Name)
         ELSE GroupMembers(outs, group, n - 1)

\* (mutant: a later rule overwrites the assignment)
AssignScheduleLast(assignments, target, schedule) == DictSet(assignments, target, schedule)

\* if assignments.get(target): warning, else: assignments[target] = schedule
AssignSchedule(assignments, target, schedule) ==
    IF Truthy(DictGet(assignments, target))
    THEN assignments
    ELSE DictSet(assignments, target, schedule)

RECURSIVE AssignScheduleGroup(_, _, _, _)
AssignScheduleGroup(assignments, members, n, schedule) ==
    IF n = 0
    THEN assignments
    ELSE AssignSchedule(AssignScheduleGroup(assignments, members, n - 1, schedule),
                        members[n], schedule)

\* the loop over lighting_controls, the first n rules applied
RECURSIVE ScheduleRules(_, _, _)
ScheduleRules(outs, controls, n) ==
    IF n = 0
    THEN Unassigned(outs, Len(outs))
    ELSE LET assignments == ScheduleRules(outs, controls, n - 1)
             control == controls[n]
         IN  CASE control.Type = "default" -> assignments
               [] control.Type = "switch" ->
                    AssignSchedule(assignments, control.Target, control.Schedule)
               [] control.Type = "switch group" ->
                    LET members == GroupMembers(outs, control.Target, Len(outs))
                    IN  AssignScheduleGroup(assignments, members, Len(members), control.Schedule)
               [] OTHER -> assignments

\* next((c["Schedule"] for c in ... if type == "default"), None)
DefaultSchedule(controls) ==
    LET defaults == { n \in 1..Len(controls) : controls[n].Type = "default" }
    IN  IF defaults = {}
        THEN None
        ELSE controls[CHOOSE n \in defaults : \A k \in defaults : n <= k].Schedule

\* (mutant: the unassigned outputs are left without the default schedule)
MapSchedulesNoDefault(outs, controls) ==
    IF Len(outs) = 0
    THEN << >>
    ELSE ScheduleRules(outs, controls, Len(controls))

_map_schedules_to_outputs(outs, controls) ==
    IF Len(outs) = 0
    THEN << >>
    ELSE IF Len(controls) = 0
    THEN Unassigned(outs, Len(outs))
    ELSE LET assignments == ScheduleRules(outs, controls, Len(controls))
         IN  [i \in 1..Len(assignments) |->
                 IF assignments[i][2] = None
                 THEN <<assignments[i][1], DefaultSchedule(controls)>>
                 ELSE assignments[i]]

(***************************************************************************)
(* _map_inputs_to_outputs.                                                 *)
(***************************************************************************)
\* if assignments.get(target): warning, else: assignments[target] = input_name
AssignInput(assignments, target, input_name) ==
    IF Truthy(DictGet(assignments, target))
    THEN assignments
    ELSE DictSet(assignments, target, input_name)

RECURSIVE AssignInputGroup(_, _, _, _)
AssignInputGroup(assignments, members, n, input_name) ==
    IF n = 0
    THEN assignments
    ELSE AssignInput(AssignInputGroup(assignments, members, n - 1, input_name),
                     members[n], input_name)

\* the loop over input_controls, the first n rules applied
RECURSIVE InputRules(_, _, _)
InputRules(outs, controls, n) ==
    IF n = 0
    THEN Unassigned(outs, Len(outs))
    ELSE LET assignments == InputRules(outs, controls, n - 1)
             control == controls[n]
         IN  CASE control.Type = "default" -> assignments
               [] control.Type = "switch" ->
                    AssignInput(assignments, control.Target, control.Input)
               [] control.Type = "switch group" ->
                    LET members == GroupMembers(outs, control.Target, Len(outs))
                    IN  AssignInputGroup(assignments, members, Len(members), control.Input)
               [] OTHER -> assignments

\* default_input after the loop: the Input of the last default rule
DefaultInput(controls) ==
    LET defaults == { n \in 1..Len(controls) : controls[n].Type = "default" }
    IN  IF defaults = {}
        THEN None
        ELSE controls[CHOOSE n \in defaults : \A k \in defaults : n >= k].Input

_map_inputs_to_outputs(outs, controls) ==
    IF Len(outs) = 0
    THEN << >>
    ELSE IF Len(controls) = 0
    THEN Unassigned(outs, Len(outs))
    ELSE LET assignments == InputRules(outs, controls, Len(controls))
         IN  IF Truthy(DefaultInput(controls))
             THEN [i \in 1..Len(assignments) |->
                     IF assignments[i][2] = None
                     THEN <<assignments[i][1], DefaultInput(controls)>>
                     ELSE assignments[i]]
             ELSE assignments


(***************************************************************************)
(* evaluate_switch_states.                                                 *)
(***************************************************************************)
\* _get_schedule_by_name returns a schedule
HasSchedule(schedules, name) == \E k \in 1..Len(schedules) : schedules[k].Name = name

\* _get_schedule_by_name: the first schedule of that name
_get_schedule_by_name(schedules, name) ==
    schedules[CHOOSE k \in 1..Len(schedules) :
                 /\ schedules[k].Name = name
                 /\ \A j \in 1..(k - 1) : schedules[j].Name # name]

StateEntry(switch, schedule_name, desired_state, input_name) ==
    [Switch |-> switch, Schedule |-> schedule_name, State |-> desired_state,
     Input |-> input_name, InputState |-> None]

\* the loop over schedule_map.items() from entry i on: the set of outcomes
\* [states, cache, fatal]; fatal when log_fatal_error ended the process
RECURSIVE SwitchStatesFrom(_, _, _, _, _, _, _, _)
SwitchStatesFrom(cfg, smap, imap, i, t, day, dd, acc) ==
    IF i > Len(smap)
    THEN {[states |-> acc.states, cache |-> acc.cache, fatal |-> FALSE]}
    ELSE LET switch == smap[i][1]
             schedule_name == smap[i][2]
         IN  IF ~HasSchedule(cfg.Schedules, schedule_name)
             THEN {[states |-> acc.states, cache |-> acc.cache, fatal |-> TRUE]}
             ELSE UNION {
                 IF out.result = "FATAL"
                 THEN {[states |-> acc.states, cache |-> out.cache, fatal |-> TRUE]}
                 ELSE SwitchStatesFrom(cfg, smap, imap, i + 1, t, day, dd,
                          [states |-> Append(acc.states,
                                          StateEntry(switch, schedule_name, out.result,
                                                     DictGet(imap, switch))),
                           cache |-> out.cache]) :
                     out \in _evaluate_schedule(
                                 _get_schedule_by_name(cfg.Schedules, schedule_name),
                                 t, WeekdayStr(day), day, dd, acc.cache)}

evaluate_switch_states(cfg, smap, imap, t, day, dd, cache) ==
    IF Len(smap) = 0
    THEN {[states |-> << >>, cache |-> cache, fatal |-> FALSE]}
    ELSE SwitchStatesFrom(cfg, smap, imap, 1, t, day, dd,
                          [states |-> << >>, cache |-> cache])

(***************************************************************************)
(* The switch-event history.                                               *)
(***************************************************************************)
\* DateHelper.now_str(datetime_format="%H:%M:%S")
TimeStr(t) == <<t \div 60, t % 60, 0>>

SwitchEvent(t, switch, state, schedule_name, input_name) ==
    [Time |-> TimeStr(t), Switch |-> switch, Schedule |-> schedule_name,
     Input |-> input_name, State |-> state]

\* (mutant: every event opens a bucket of its own)
RecordInNewBucket(events, day, t, switch, state, schedule_name, input_name) ==
    Append(events, [Date |-> DateStr(day),
                    Events |-> <<SwitchEvent(t, switch, state, schedule_name, input_name)>>])

\* (mutant: an event of an input also names the input as its schedule)
RecordBothCauses(events, day, t, switch, state, schedule_name, input_name) ==
    LET event == SwitchEvent(t, switch, state,
                             IF schedule_name = None THEN input_name ELSE schedule_name,
                             input_name)
        todays == { k \in 1..Len(events) : events[k].Date = DateStr(day) }
    IN  IF todays # {}
        THEN LET k == CHOOSE k \in todays : \A j \in todays : k <= j
             IN  [events EXCEPT ![k].Events = Append(@, event)]
        ELSE Append(events, [Date |-> DateStr(day), Events |-> <<event>>])

\* _record_switch_event: append to the first bucket of today, or to a new one
_record_switch_event(events, day, t, switch, state, schedule_name, input_name) ==
    LET event == SwitchEvent(t, switch, state, schedule_name, input_name)
        todays == { k \in 1..Len(events) : events[k].Date = DateStr(day) }
    IN  IF todays # {}
        THEN LET k == CHOOSE k \in todays : \A j \in todays : k <= j
             IN  [events EXCEPT ![k].Events = Append(@, event)]
        ELSE Append(events, [Date |-> DateStr(day), Events |-> <<event>>])

\* list.sort(key = operator.itemgetter(key)): the stable sort of the first n
\* elements of s; the keys are strings of zero-padded fields
RECURSIVE InsertSorted(_, _, _)
InsertSorted(s, x, key) ==
    IF s = << >>
    THEN <<x>>
    ELSE IF LexLess(x[key], Head(s)[key])
         THEN <<x>> \o s
         ELSE <<Head(s)>> \o InsertSorted(Tail(s), x, key)

RECURSIVE SortBy(_, _, _)
SortBy(s, key, n) ==
    IF n = 0 THEN << >> ELSE InsertSorted(SortBy(s, key, n - 1), s[n], key)

\* (mutant: a bucket dated exactly at the cutoff is dropped too)
TrimAfterCutoff(events, day, max_days) ==
    LET cutoff_date_str == DateStr(day - max_days)
        kept == SelectSeq(events, LAMBDA b : LexLess(cutoff_date_str, b.Date))
        sorted == SortBy(kept, "Date", Len(kept))
    IN  [k \in 1..Len(sorted) |->
            [sorted[k] EXCEPT !.Events = SortBy(@, "Time", Len(@))]]

\* _trim_switch_events: DateHelper.today_add_days(-max_days), formatted, is
\* compared with the Date strings; then the two sorts
_trim_switch_events(events, day, max_days) ==
    LET cutoff_date_str == DateStr(day - max_days)
        kept == SelectSeq(events, LAMBDA b : ~LexLess(b.Date, cutoff_date_str))
        sorted == SortBy(kept, "Date", Len(kept))
    IN  [k \in 1..Len(sorted) |->
            [sorted[k] EXCEPT !.Events = SortBy(@, "Time", Len(@))]]

(***************************************************************************)
(* change_switch_states.  A pass is [states, dev, events, cmds, status]:   *)
(* the switch states, the devices, the history, the change_output calls    *)
(* made ([Switch, On, ok]) and how the pass ended: "done", or "crashed"    *)
(* when an exception left the method (a failed assertion, a device call    *)
(* that raised).                                                           *)
(***************************************************************************)
OnOff(b) == IF b THEN "ON" ELSE "OFF"

Crashed(pass) == [pass EXCEPT !.status = "crashed"]

\* self.shelly_control.change_output(switch_component, on): the call
\* returns and the output has the new state, or it raises
Commanded(pass, switch, on, ok) ==
    [pass EXCEPT !.cmds = Append(@, [Switch |-> switch, On |-> on, ok |-> ok]),
                 !.dev.out[switch].State = IF ok THEN on ELSE @]

\* if input_control and input_state == "ON"
Override(input_control, input_state) == Truthy(input_control) /\ input_state = "ON"

\* (mutant: the output is commanded whatever its state)
MismatchAlways(scheduled_state, current_output_state) == TRUE

\* if scheduled_state != current_output_state
Mismatch(scheduled_state, current_output_state) == scheduled_state # current_output_state

\* a device that is off line is taken for on line
AlwaysOnline(dev, output_control) == TRUE

\* self.shelly_control.is_device_online(switch_component)
is_device_online(dev, output_control) == dev.out[output_control].online

\* the loop over self.switch_states from entry i on: the set of outcomes
RECURSIVE ReconcileFrom(_, _, _, _)
ReconcileFrom(pass, i, day, t) ==
    IF i > Len(pass.states)
    THEN {[pass EXCEPT !.status = "done"]}
    ELSE LET state == pass.states[i]
             output_control == state.Switch
             input_control == state.Input
         IN  IF output_control \notin DOMAIN pass.dev.out
             THEN {Crashed(pass)}     \* assert switch_component is not None
             ELSE IF ~is_device_online(pass.dev, output_control)
             THEN ReconcileFrom(pass, i + 1, day, t)
             ELSE IF Truthy(input_control) /\ input_control \notin DOMAIN pass.dev.inp
             THEN {Crashed(pass)}     \* input_component.get on None
             ELSE
             LET current_output_state == OnOff(pass.dev.out[output_control].State)
                 input_state == IF Truthy(input_control)
                                THEN OnOff(pass.dev.inp[input_control])
                                ELSE None
                 seen == IF Truthy(input_control)
                         THEN [pass EXCEPT !.states[i].InputState = input_state]
                         ELSE pass
             IN  IF Override(input_control, input_state)
                 THEN IF current_output_state = "OFF"
                      THEN {Crashed(Commanded(seen, output_control, TRUE, FALSE))}
                           \cup ReconcileFrom(
                                [Commanded(seen, output_control, TRUE, TRUE) EXCEPT
                                    !.events = _record_switch_event(@, day, t, output_control,
                                                   "ON", None, input_control),
                                    !.states[i].State = "ON"],
                                i + 1, day, t)
                      ELSE ReconcileFrom([seen EXCEPT !.states[i].State = "ON"], i + 1, day, t)
                 ELSE LET scheduled_state == state.State
                      IN  IF Mismatch(scheduled_state, current_output_state)
                          THEN {Crashed(Commanded(seen, output_control,
                                                  scheduled_state = "ON", FALSE))}
                               \cup ReconcileFrom(
                                    [Commanded(seen, output_control, scheduled_state = "ON", TRUE)
                                     EXCEPT
                                        !.events = _record_switch_event(@, day, t, output_control,
                                                       scheduled_state, state.Schedule, None),
                                        !.states[i].State = scheduled_state],
                                    i + 1, day, t)
                          ELSE ReconcileFrom(seen, i + 1, day, t)

\* change_switch_states after a successful refresh_all_device_statuses
change_switch_states(states, dev, events, day, t) ==
    ReconcileFrom([states |-> states, dev |-> dev, events |-> events,
                   cmds |-> << >>, status |-> "running"], 1, day, t)


(***************************************************************************)
(* The state file, _load_state and get_dusk_dawn_times.                    *)
(***************************************************************************)
NoStateFile ==
    [exists |-> FALSE, size |-> 0, RandomOffsets |-> << >>, SwitchEvents |-> << >>]

\* nothing was saved yet
NoDump == [RandomOffsets |-> << >>, SwitchEvents |-> << >>]

\* json.dump of a Python value: None is written as null, a str as a string
\* and an int as a number
JsonNull == <<"null">>
JsonString(v) == IF v = None THEN JsonNull ELSE <<"string", v>>
JsonNumber(n) == <<"number", n>>

\* json.load of such a value
FromJson(j) == IF j = JsonNull THEN None ELSE j[2]

\* "RandomOffsets": self.offset_cache as json.dump writes it
DumpOffsets(cache) == [key \in DOMAIN cache |-> JsonNumber(cache[key])]

\* "SwitchEvents": self.switch_events as json.dump writes it
DumpEvents(events) ==
    [k \in 1..Len(events) |->
        [Date |-> <<"string", events[k].Date>>,
         Events |-> [n \in 1..Len(events[k].Events) |->
                        LET e == events[k].Events[n]
                        IN  [Time |-> <<"string", e.Time>>,
                             Switch |-> <<"string", e.Switch>>,
                             Schedule |-> JsonString(e.Schedule),
                             Input |-> JsonString(e.Input),
                             State |-> <<"string", e.State>>]]]]

\* state.get("RandomOffsets", {}) of the loaded file
LoadOffsets(json) == [key \in DOMAIN json |-> FromJson(json[key])]

\* state.get("SwitchEvents", []) of the loaded file
LoadEvents(json) ==
    [k \in 1..Len(json) |->
        [Date |-> FromJson(json[k].Date),
         Events |-> [n \in 1..Len(json[k].Events) |->
                        LET e == json[k].Events[n]
                        IN  [Time |-> FromJson(e.Time), Switch |-> FromJson(e.Switch),
                             Schedule |-> FromJson(e.Schedule), Input |-> FromJson(e.Input),
                             State |-> FromJson(e.State)]]]]

\* the bytes of the schedules in the file: a name and the lines of each event
RECURSIVE ScheduleBytes(_, _)
ScheduleBytes(schedules, n) ==
    IF n = 0
    THEN 0
    ELSE 50 + 85 * Len(schedules[n].Events) + ScheduleBytes(schedules, n - 1)

\* the bytes of the history in the file: a date per bucket and six lines per event
RECURSIVE HistoryBytes(_, _)
HistoryBytes(events, n) ==
    IF n = 0
    THEN 0
    ELSE 65 + 150 * Len(events[n].Events) + HistoryBytes(events, n - 1)

\* the bytes json.dump(state_data, f, indent=2) writes, counted from below
\* with the shortest names: the fixed fields with every collection empty,
\* one line per random offset, seven lines per switch state, the schedules
\* of the configuration and the history
StateFileSize(cache, states, schedules, events) ==
    335 + 30 * Cardinality(DOMAIN cache) + 125 * Len(states)
        + ScheduleBytes(schedules, Len(schedules)) + HistoryBytes(events, Len(events))

\* (mutant: the history of the file is not taken over)
LoadOffsetsOnly(file, cache, events) ==
    IF file.exists /\ file.size >= MinStateFileBytes
    THEN [cache |-> LoadOffsets(file.RandomOffsets), events |-> events]
    ELSE [cache |-> cache, events |-> events]

\* _load_state: [cache, events] afterwards
_load_state(file, cache, events) ==
    IF file.exists /\ file.size >= MinStateFileBytes
    THEN [cache |-> LoadOffsets(file.RandomOffsets), events |-> LoadEvents(file.SwitchEvents)]
    ELSE [cache |-> cache, events |-> events]

\* a key that the Location dict does not have
Absent == "absent"

\* the coordinates of the samples: those a device reports, those in a map
\* link, those configured as Latitude and Longitude, and the default 0.0
DeviceCoords == [lat |-> "51.50", lon |-> "-0.12"]
UrlCoords == [lat |-> "-33.86", lon |-> "151.21"]
ExplicitCoords == [lat |-> "40.71", lon |-> "-74.00"]
DefaultCoords == [lat |-> "0.0", lon |-> "0.0"]

\* map links with and without decimal coordinates
UrlWithCoords == "https://maps.example/place/@-33.86,151.21,17z"
UrlWithoutCoords == "https://maps.example/place/home"

\* re.search(r"@?([-]?\d+\.\d+),([-]?\d+\.\d+)", url): the match or None
UrlMatch(url) ==
    IF url = UrlWithCoords THEN [lat |-> UrlCoords.lat, lon |-> UrlCoords.lon]
    ELSE [lat |-> None, lon |-> None]

\* get_device and get_device_location: the device reports a location, with
\* or without coordinates, or none, or the call raises RuntimeError or
\* TimeoutError
ShellyLocations ==
    { [status |-> "ok", tz |-> "Europe/London", lat |-> DeviceCoords.lat,
       lon |-> DeviceCoords.lon],
      [status |-> "ok", tz |-> "Europe/London", lat |-> None, lon |-> None],
      [status |-> "none", tz |-> None, lat |-> None, lon |-> None],
      [status |-> "error", tz |-> None, lat |-> None, lon |-> None] }

\* no device is asked
NoShelly == [status |-> "none", tz |-> None, lat |-> None, lon |-> None]

\* what the device layer can answer for a Location
ShellyFor(loc_conf) ==
    IF loc_conf.UseShellyDevice \in {Absent, None, ""} THEN {NoShelly} ELSE ShellyLocations

\* if lat is None or lon is None: the defaults 0.0, 0.0
OrDefault(tz, lat, lon) ==
    IF lat = None \/ lon = None
    THEN [raised |-> FALSE, tz |-> tz, lat |-> DefaultCoords.lat, lon |-> DefaultCoords.lon]
    ELSE [raised |-> FALSE, tz |-> tz, lat |-> lat, lon |-> lon]

\* loc_conf[key] of a key that is not there
KeyError == [raised |-> TRUE, tz |-> None, lat |-> None, lon |-> None]

\* get_dusk_dawn_times up to the LocationInfo: the time zone and the
\* coordinates, or the KeyError of a missing key
resolve_location(loc_conf, shelly_loc) ==
    LET from_device == loc_conf.UseShellyDevice \notin {Absent, None, ""}
                       /\ shelly_loc.status = "ok"
        tz == IF from_device THEN shelly_loc.tz ELSE None
    IN  IF tz # None
        THEN OrDefault(tz, shelly_loc.lat, shelly_loc.lon)
        ELSE IF loc_conf.Timezone = Absent
        THEN KeyError
        ELSE IF loc_conf.GoogleMapsURL \notin {Absent, None}
        THEN OrDefault(loc_conf.Timezone, UrlMatch(loc_conf.GoogleMapsURL).lat,
                       UrlMatch(loc_conf.GoogleMapsURL).lon)
        ELSE IF loc_conf.Latitude = Absent \/ loc_conf.Longitude = Absent
        THEN KeyError
        ELSE OrDefault(loc_conf.Timezone, loc_conf.Latitude, loc_conf.Longitude)

\* the location of the configurations that say nothing else: a map link
HomeLocation ==
    [UseShellyDevice |-> Absent, GoogleMapsURL |-> UrlWithCoords,
     Timezone |-> "Australia/Sydney", Latitude |-> Absent, Longitude |-> Absent]

\* how many minutes later than at home the sun rises and earlier it sets at
\* the latitudes of the samples
LatitudeShift(lat) ==
    CASE lat = UrlCoords.lat -> 0
      [] lat = DefaultCoords.lat -> 20
      [] lat = ExplicitCoords.lat -> 35
      [] OTHER -> 50

\* astral's sun(location.observer, date=DateHelper.today()): at home dusk is
\* 18:30 and dawn 05:40 on day 0 and the days grow shorter by two minutes a
\* day
sun(lat, day) ==
    [dawn |-> 5 * 60 + 40 + day + LatitudeShift(lat),
     dusk |-> 18 * 60 + 30 - day - LatitudeShift(lat)]

\* get_dusk_dawn_times at the home location
get_dusk_dawn_times(day) == sun(UrlCoords.lat, day)


(***************************************************************************)
(* Schedule evaluation on its own: the configuration holds one schedule,   *)
(* drawn from a pool of events; Evaluate applies _evaluate_schedule and    *)
(* SetNow lets the clock advance so that later evaluations of the same     *)
(* day find the offsets of the earlier ones in the cache.                  *)
(***************************************************************************)
Event(on, off, ro, days, off_dates) ==
    [TurnOn |-> on, TurnOff |-> off, RandomOffset |-> ro,
     DaysOfWeek |-> days, DatesOff |-> off_dates]

Windows ==
    { <<Clock(6, 0), Clock(22, 0)>>,            \* same day
      <<Clock(23, 0), Clock(6, 0)>>,            \* overnight
      <<Sun("dusk", "-", 0, 10), Clock(22, 0)>>,
      <<Clock(6, 0), Clock(6, 0)>> }            \* on = off

\* 02:00 06:00 07:00 18:20 18:25 22:00 23:00
NowSamples == {120, 360, 420, 1100, 1105, 1320, 1380}

\* events for the window test: every window, with and without jitter, and
\* an event whose day-of-week filter excludes Monday
WindowEvents ==
    { Event(w[1], w[2], ro, <<"All">>, <<>>) : w \in Windows, ro \in {0, MaxJitter} }
    \cup { Event(w[1], w[2], 0, <<"Tue", "Sun">>, <<>>) : w \in Windows }

\* events for the filters: day-of-week lists and DatesOff lists
FilterEvents ==
    { Event(w[1], w[2], 0, days, off_dates) :
        w \in { <<Clock(6, 0), Clock(22, 0)>>, <<Clock(23, 0), Clock(6, 0)>> },
        days \in { <<"All">>, <<"Tue", "Sun">> },
        off_dates \in { <<>>, <<DateRange(0, 1)>>, <<BadRange, DateRange(0, 0)>>,
                        <<BadRange, DateRange(1, 2)>> } }

SeqsUpTo(S, n) == UNION { [1..k -> S] : k \in 1..n }

Jittered(events) == { i \in 1..Len(events) : events[i].RandomOffset # 0 }

\* at most one jittered event per schedule keeps the product of the draws small
WindowSchedules ==
    { [Name |-> "Evening", Events |-> es] :
        es \in { s \in SeqsUpTo(WindowEvents, MaxEvents) : Cardinality(Jittered(s)) <= 1 } }

FilterSchedules ==
    { [Name |-> "Evening", Events |-> es] : es \in SeqsUpTo(FilterEvents, MaxEvents) }

\* the sections of the configuration the controller reads
Config(schedules, lighting_control, input_controls, max_days) ==
    [Schedules |-> schedules, LightingControl |-> lighting_control,
     InputControls |-> input_controls, MaxDays |-> max_days,
     WebsiteBaseURL |-> None, HeartbeatURL |-> None, Location |-> HomeLocation,
     SavedStateFile |-> "system_state.json"]

ConfigOf(schedule) == Config(<<schedule>>, << >>, << >>, 1)

(***************************************************************************)
(* Telemetry and the wake signal.                                          *)
(***************************************************************************)
\* nothing was posted and nothing was pinged yet
NoTelemetry == [post |-> None, ping |-> None, fail |-> None]

\* requests.post(...) and response.raise_for_status() in
\* post_state_to_web_server: the post is accepted, or the server answers
\* 403, or another error status, or the connection fails, or the request
\* times out, or requests raises another RequestException (too many
\* redirects, an invalid URL, a broken body)
PostOutcomes ==
    {"ok", "forbidden", "http_error", "connection_error", "timeout", "request_error"}

\* the except clauses of post_state_to_web_server: which outcome ends in
\* logger.log_fatal_error
PostIsFatal(outcome) == outcome = "request_error"

\* requests.get(heartbeat_url) in ping_heatbeat: 200, another status, a
\* timeout or another RequestException
PingOutcomes == {"ok", "bad_status", "timeout", "request_error"}

\* ping_heatbeat returns True or False and raises nothing
ping_heatbeat(outcome) == outcome = "ok"

\* threading.Event.set()
wake_event_set(flag) == TRUE

\* a clear() that leaves the flag as it is
ClearIgnored(flag) == flag

\* threading.Event.clear()
wake_event_clear(flag) == FALSE

\* no webhook was called yet:
\*   triggers  webhook calls handled
\*   unserved  a call came and no cycle of the loop has begun since
\*   unseen    a call came after the loop last looked at the flag
\*   open      a call came since the loop last returned from the wait
\*   held      the calls since the loop last returned from the wait that came
\*             while the loop was not between that return and its clear()
\*   bursts    the waits-to-wait stretches in which calls came
\*   early     the returns from the wait with the flag set
NoWakes ==
    [triggers |-> 0, unserved |-> FALSE, unseen |-> FALSE, open |-> FALSE, held |-> 0,
     bursts |-> 0, early |-> 0]

\* no devices, nothing mapped, nothing recorded
NoController ==
    /\ outputs = << >>
    /\ device = [out |-> << >>, inp |-> << >>]
    /\ schedule_map = << >>
    /\ input_map = << >>
    /\ switch_states = << >>
    /\ switch_events = << >>
    /\ state_file = NoStateFile
    /\ commands = << >>
    /\ config_changed = FALSE
    /\ pass_status = None
    /\ trimmed_from = << >>
    /\ dumped = NoDump
    /\ wake_event = FALSE
    /\ telemetry = NoTelemetry
    /\ wakes = NoWakes
    /\ webhook_args = None

EmptyCache == << >>

InitEval ==
    /\ pc = "idle"
    /\ config \in { ConfigOf(s) : s \in WindowSchedules }
    /\ config_file = config
    /\ signal_at = None
    /\ today = 0
    /\ now \in NowSamples
    /\ dusk_dawn = get_dusk_dawn_times(0)
    /\ offset_cache = EmptyCache
    /\ result = None
    /\ NoController

InitDates ==
    /\ pc = "idle"
    /\ config \in { ConfigOf(s) : s \in FilterSchedules }
    /\ config_file = config
    /\ signal_at = None
    /\ today = 0
    /\ now \in NowSamples
    /\ dusk_dawn = get_dusk_dawn_times(0)
    /\ offset_cache = EmptyCache
    /\ result = None
    /\ NoController

\* desired_state = self._evaluate_schedule(schedule, now, weekday_str)
Evaluate ==
    /\ pc \in {"idle", "evaluated"}
    /\ \E out \in _evaluate_schedule(config.Schedules[1], now, WeekdayStr(today),
                                     today, dusk_dawn, offset_cache) :
        /\ result' = out.result
        /\ offset_cache' = out.cache
        /\ pc' = IF out.result = "FATAL" THEN "fatal" ELSE "evaluated"
    /\ UNCHANGED <<config, today, now, dusk_dawn>>
    /\ UNCHANGED ctlVars

\* the clock advances within the day
SetNow ==
    /\ pc = "evaluated"
    /\ \E t \in NowSamples : t > now /\ now' = t
    /\ pc' = "idle"
    /\ result' = None
    /\ UNCHANGED <<config, today, dusk_dawn, offset_cache>>
    /\ UNCHANGED ctlVars

NextEval == Evaluate \/ SetNow

\* events with an exclusion range and with a random offset: what an
\* evaluation adds to the cache shows which events it reached
ExcludedEvents ==
    { Event(Clock(6, 0), Clock(22, 0), ro, days, off_dates) :
        ro \in {0, MaxJitter},
        days \in { <<"All">>, <<"Tue", "Sun">> },
        off_dates \in { <<>>, <<DateRange(0, 1)>>, <<BadRange, DateRange(1, 2)>> } }

ExcludedSchedules ==
    { [Name |-> "Evening", Events |-> es] :
        es \in { s \in SeqsUpTo(ExcludedEvents, MaxEvents) : Cardinality(Jittered(s)) <= 1 } }

InitExcluded ==
    /\ pc = "idle"
    /\ config \in { ConfigOf(s) : s \in ExcludedSchedules }
    /\ config_file = config
    /\ signal_at = None
    /\ today = 0
    /\ now \in NowSamples
    /\ dusk_dawn = get_dusk_dawn_times(0)
    /\ offset_cache = EmptyCache
    /\ result = None
    /\ NoController

SpecExcluded == InitExcluded /\ [][NextEval]_vars

(***************************************************************************)
(* get_dusk_dawn_times on its own: the Location section is drawn from the  *)
(* values its schema allows, a device is asked when one is named, and      *)
(* result keeps the answer of the device and the location resolved.        *)
(***************************************************************************)
Locations ==
    { [UseShellyDevice |-> dev, GoogleMapsURL |-> url, Timezone |-> "Australia/Sydney",
       Latitude |-> c.lat, Longitude |-> c.lon] :
        dev \in {Absent, "Shelly1"},
        url \in {Absent, None, UrlWithCoords, UrlWithoutCoords},
        c \in {[lat |-> Absent, lon |-> Absent], [lat |-> None, lon |-> None], ExplicitCoords} }

InitLoc ==
    /\ pc = "idle"
    /\ config \in { [Config(<< >>, << >>, << >>, 1) EXCEPT !.Location = loc] : loc \in Locations }
    /\ config_file = config
    /\ signal_at = None
    /\ today \in 0..MaxDay
    /\ now = 7 * 60
    /\ dusk_dawn = << >>
    /\ offset_cache = EmptyCache
    /\ result = None
    /\ NoController

\* self.dusk_dawn = self.get_dusk_dawn_times()
GetDuskDawnTimes ==
    /\ pc = "idle"
    /\ \E shelly_loc \in ShellyFor(config.Location) :
        LET loc == resolve_location(config.Location, shelly_loc)
        IN  /\ result' = [shelly |-> shelly_loc, loc |-> loc]
            /\ dusk_dawn' = IF loc.raised THEN dusk_dawn ELSE sun(loc.lat, today)
            /\ pc' = IF loc.raised THEN "raised_init" ELSE "located"
    /\ UNCHANGED <<config, today, now, offset_cache>>
    /\ UNCHANGED ctlVars

SpecLoc == InitLoc /\ [][GetDuskDawnTimes]_vars

\* windows on the sun: the evening of the example, a window whose offsets
\* carry past midnight (dusk+05:30 is 00:00, dawn-06:00 is 23:40), and one
\* whose offset carries back before midnight (dusk-19:00 is 23:30)
SunWindows ==
    { <<Sun("dusk", "-", 0, 10), Clock(22, 0)>>,
      <<Sun("dusk", "+", 5, 30), Sun("dawn", "-", 6, 0)>>,
      <<Sun("dawn", "", 0, 0), Sun("dusk", "-", 19, 0)>> }

SunEvents ==
    { Event(w[1], w[2], ro, <<"All">>, <<>>) : w \in SunWindows, ro \in {0, MaxJitter} }

SunSchedules ==
    { [Name |-> "Evening", Events |-> es] :
        es \in { s \in SeqsUpTo(SunEvents, MaxEvents) : Cardinality(Jittered(s)) <= 1 } }

InitSun ==
    /\ pc = "idle"
    /\ config \in { ConfigOf(s) : s \in SunSchedules }
    /\ config_file = config
    /\ signal_at = None
    /\ today = 0
    /\ now \in NowSamples
    /\ dusk_dawn = get_dusk_dawn_times(0)
    /\ offset_cache = EmptyCache
    /\ result = None
    /\ NoController

SpecSun == InitSun /\ [][NextEval]_vars

SpecEval == InitEval /\ [][NextEval]_vars
SpecDates == InitDates /\ [][NextEval]_vars

(***************************************************************************)
(* The controller: __init__ and the phases of run().                       *)
(*   pc: "init" -> "init_eval" -> "check" -> "evaluate" -> "reconcile"     *)
(*       -> "save" -> "wait" -> "woken" (-> "clear") -> "heartbeat"        *)
(*       -> "check" ...; "fatal" after log_fatal_error, "crashed" after    *)
(*       an exception left run(), "raised_init" after an exception left    *)
(*       the constructor, "traceback" after an exception left main().      *)
(***************************************************************************)
\* the state file an installation of last week left under another name: the
\* history of day -7, no offsets
OtherStateFile ==
    LET events == <<[Date |-> DateStr(0 - 7),
                     Events |-> <<SwitchEvent(7 * 60, "A", "ON", "S1", None),
                                  SwitchEvent(22 * 60, "A", "OFF", "S1", None)>>]>>
    IN  [exists |-> TRUE,
         size |-> StateFileSize(<< >>, << >>, << >>, events),
         RandomOffsets |-> DumpOffsets(<< >>),
         SwitchEvents |-> DumpEvents(events)]

\* self.state_filepath = SCCommon.select_file_location(state_file): the file
\* at the path: the one in use so far, or the one under the other name
select_file_location(path) ==
    IF path = config.SavedStateFile THEN state_file ELSE OtherStateFile

\* _initialise, with the configuration cfg in memory and the location loc
\* that get_dusk_dawn_times resolved
_initialise(cfg, loc) ==
    /\ dusk_dawn' = sun(loc.lat, today)
    /\ schedule_map' = _map_schedules_to_outputs(outputs, cfg.LightingControl)
    /\ input_map' = _map_inputs_to_outputs(outputs, cfg.InputControls)
    /\ state_file' = select_file_location(cfg.SavedStateFile)
    /\ LET loaded == _load_state(state_file', offset_cache, switch_events)
       IN  /\ offset_cache' = loaded.cache
           /\ switch_events' = loaded.events

\* __init__: self._initialise(); an exception of get_dusk_dawn_times leaves
\* the constructor
Initialise ==
    /\ pc = "init"
    /\ \E shelly_loc \in ShellyFor(config.Location) :
        LET loc == resolve_location(config.Location, shelly_loc)
        IN  IF loc.raised
            THEN /\ pc' = "raised_init"
                 /\ UNCHANGED <<dusk_dawn, schedule_map, input_map, offset_cache,
                                switch_events, state_file>>
            ELSE /\ _initialise(config, loc)
                 /\ pc' = "init_eval"
    /\ UNCHANGED <<config, today, now, result, outputs, device, switch_states,
                   commands, config_changed, pass_status, trimmed_from, dumped>>
    /\ UNCHANGED loopVars
    /\ UNCHANGED <<config_file, signal_at>>

\* a probe that never reports a change
NeverChanged(changed) == FALSE

\* self.config.check_for_config_changes(self.config_last_check): the
\* configuration manager reads the file again when it was modified and
\* reports that
check_for_config_changes(changed) == changed

\* reload_config: initialize_settings(refresh_status=True) of the device
\* layer returns, or raises RuntimeError, which ends in log_fatal_error
ReloadOutcomes == {"ok", "RuntimeError"}

\* run: a cycle begins with check_for_config_changes, and reload_config when
\* it reports a change; written is the content of the configuration file when
\* reload_config sets config_last_check = DateHelper.now() at its end
BeginCycle(written) ==
    /\ pc = "check"
    /\ IF check_for_config_changes(config_changed)
       THEN /\ config' = config_file
            /\ \E reload \in ReloadOutcomes, shelly_loc \in ShellyFor(config_file.Location) :
                LET loc == resolve_location(config_file.Location, shelly_loc)
                IN  IF reload = "ok" /\ ~loc.raised
                    THEN /\ _initialise(config', loc)
                         /\ config_changed' = FALSE
                         /\ pc' = "evaluate"
                    ELSE /\ pc' = IF reload = "ok" THEN "crashed" ELSE "fatal"
                         /\ UNCHANGED <<dusk_dawn, schedule_map, input_map, offset_cache,
                                        switch_events, config_changed, state_file>>
       ELSE /\ pc' = "evaluate"
            /\ UNCHANGED <<config, dusk_dawn, schedule_map, input_map, offset_cache,
                           switch_events, config_changed, state_file>>
    /\ wakes' = [wakes EXCEPT !.unserved = FALSE]
    /\ UNCHANGED webhook_args
    /\ UNCHANGED <<today, now, result, outputs, device, switch_states,
                   commands, pass_status, trimmed_from, dumped, wake_event, telemetry,
                   signal_at>>
    /\ config_file' = written

\* the cycle begins while nobody writes the configuration file
CheckConfig == BeginCycle(config_file)

\* evaluate_switch_states, called by __init__ and by run
EvaluateSwitchStates ==
    /\ pc \in {"init_eval", "evaluate"}
    /\ \E out \in evaluate_switch_states(config, schedule_map, input_map, now, today,
                                         dusk_dawn, offset_cache) :
        /\ switch_states' = out.states
        /\ offset_cache' = out.cache
        /\ pc' = IF out.fatal THEN "fatal"
                 ELSE IF pc = "init_eval" THEN "check" ELSE "reconcile"
    /\ UNCHANGED <<config, today, now, dusk_dawn, result, outputs, device, schedule_map,
                   input_map, switch_events, state_file, commands, config_changed,
                   pass_status, trimmed_from, dumped>>
    /\ UNCHANGED loopVars
    /\ UNCHANGED <<config_file, signal_at>>

\* a refresh that failed and a pass that drops the switch states
AbortedWithoutStates(states, dev, events) ==
    [states |-> << >>, dev |-> dev, events |-> events, cmds |-> << >>,
     status |-> "aborted"]

\* refresh_all_device_statuses raised RuntimeError: the pass is given up
Aborted(states, dev, events) ==
    [states |-> states, dev |-> dev, events |-> events, cmds |-> << >>,
     status |-> "aborted"]

\* refresh_all_device_statuses raised TimeoutError, which the except clause
\* of change_switch_states does not name: the exception leaves the method
TimedOut(states, dev, events) ==
    [states |-> states, dev |-> dev, events |-> events, cmds |-> << >>,
     status |-> "timeout"]

\* the statuses of a pass with which an exception leaves run()
Raised == {"crashed", "timeout"}

\* change_switch_states
ChangeSwitchStates ==
    /\ pc = "reconcile"
    /\ \E out \in {Aborted(switch_states, device, switch_events),
                    TimedOut(switch_states, device, switch_events)}
                     \cup change_switch_states(switch_states, device, switch_events,
                                               today, now) :
        /\ switch_states' = out.states
        /\ device' = out.dev
        /\ switch_events' = out.events
        /\ commands' = out.cmds
        /\ pass_status' = out.status
        /\ pc' = IF out.status \in Raised THEN "crashed" ELSE "save"
    /\ UNCHANGED <<config, today, now, dusk_dawn, offset_cache, result, outputs, schedule_map,
                   input_map, state_file, config_changed, trimmed_from, dumped>>
    /\ UNCHANGED loopVars
    /\ UNCHANGED <<config_file, signal_at>>

\* self.state_filepath.open("w") empties the file and json.dump fills it
\* chunk by chunk: the bytes in the file when the process stops between the
\* two (nothing), or after the first chunk of json.dump (the opening line)
SaveCuts == {0, 2}

\* the file when _save_state was left after that many bytes
Truncated(bytes) ==
    [exists |-> TRUE, size |-> bytes, RandomOffsets |-> << >>, SwitchEvents |-> << >>]

\* _save_state: _trim_switch_events, the state file is written, and
\* post_state_to_web_server posts the state when WebsiteBaseURL is set
SaveState ==
    /\ pc = "save"
    /\ trimmed_from' = switch_events
    /\ switch_events' = _trim_switch_events(switch_events, today, config.MaxDays)
    /\ state_file' = [exists |-> TRUE,
                      size |-> StateFileSize(offset_cache, switch_states, config.Schedules,
                                             switch_events'),
                      RandomOffsets |-> DumpOffsets(offset_cache),
                      SwitchEvents |-> DumpEvents(switch_events')]
    /\ dumped' = [RandomOffsets |-> offset_cache, SwitchEvents |-> switch_events']
    /\ \E post \in IF Truthy(config.WebsiteBaseURL) THEN PostOutcomes ELSE {None} :
        /\ telemetry' = [telemetry EXCEPT !.post = post]
        /\ pc' = IF PostIsFatal(post) THEN "fatal" ELSE "wait"
    /\ UNCHANGED <<config, today, now, dusk_dawn, offset_cache, result, outputs, device,
                   schedule_map, input_map, switch_states, commands, config_changed,
                   pass_status, wake_event, wakes, config_file, signal_at, webhook_args>>

\* everything but the position of the loop, the flag and the telemetry
restVars ==
    <<config, today, now, dusk_dawn, offset_cache, result, outputs, device, schedule_map,
      input_map, switch_states, switch_events, state_file, commands, config_changed,
      pass_status, trimmed_from, dumped, config_file, signal_at>>

\* self.wake_event.wait(timeout=self.check_interval) returns: at once when
\* the flag is set, after check_interval seconds otherwise
Wait ==
    /\ pc = "wait"
    /\ pc' = "woken"
    /\ UNCHANGED webhook_args
    /\ wakes' = [wakes EXCEPT !.early = IF wake_event THEN @ + 1 ELSE @,
                              !.unseen = FALSE,
                              !.open = FALSE,
                              !.held = 0]
    /\ UNCHANGED <<wake_event, telemetry>>
    /\ UNCHANGED restVars

\* if self.wake_event.is_set(): ... pull_webhook_event()
WakeCheck ==
    /\ pc = "woken"
    /\ pc' = IF wake_event THEN "clear" ELSE "heartbeat"
    /\ wakes' = [wakes EXCEPT !.unseen = FALSE]
    /\ UNCHANGED webhook_args
    /\ UNCHANGED <<wake_event, telemetry>>
    /\ UNCHANGED restVars

\* self.wake_event.clear()
ClearWake ==
    /\ pc = "clear"
    /\ wake_event' = wake_event_clear(wake_event)
    /\ pc' = "heartbeat"
    /\ UNCHANGED <<telemetry, wakes, webhook_args>>
    /\ UNCHANGED restVars

\* self.ping_heatbeat(): the result is not looked at
PingHeartbeat ==
    /\ pc = "heartbeat"
    /\ \E ping \in IF config.HeartbeatURL = None THEN {None} ELSE PingOutcomes :
        telemetry' = [telemetry EXCEPT !.ping = ping]
    /\ pc' = "check"
    /\ UNCHANGED <<wake_event, wakes, webhook_args>>
    /\ UNCHANGED restVars

\* main(): the except clause around the constructor and run().  After an
\* exception of run() it pings the heartbeat monitor with /fail and calls
\* log_fatal_error; after an exception of the constructor the name
\* controller is not bound, controller.ping_heatbeat raises
\* UnboundLocalError and that exception leaves main()
MainExcept ==
    /\ pc \in {"raised_init", "crashed"}
    /\ IF pc = "raised_init"
       THEN /\ pc' = "traceback"
            /\ UNCHANGED telemetry
       ELSE /\ pc' = "fatal"
            /\ \E ping \in IF config.HeartbeatURL = None THEN {None} ELSE PingOutcomes :
                telemetry' = [telemetry EXCEPT !.fail = ping]
    /\ UNCHANGED <<wake_event, wakes, webhook_args>>
    /\ UNCHANGED restVars

\* a handler that returns and leaves the loop where it is
HandlerReturns(at, shutdown) == at

\* _graceful_shutdown(logger, controller, sig, frame) in the main thread:
\* controller.shutdown() returns or raises, and the finally clause calls
\* sys.exit(0); SystemExit is not an Exception, so the except clause of
\* main() lets it pass and the process ends
_graceful_shutdown(at, shutdown) == "stopped"

\* controller.shutdown(): the class LightingController of controller.py has
\* no such method (AttributeError); a method that returns is the other case
ShutdownOutcomes == {"AttributeError", "returns"}

\* SIGINT or SIGTERM arrives while run() is at any of its positions
Signal ==
    /\ pc \in {"check", "evaluate", "reconcile", "save", "wait", "woken", "clear", "heartbeat"}
    /\ signal_at = None
    /\ signal_at' = pc
    /\ \E shutdown \in ShutdownOutcomes : pc' = _graceful_shutdown(pc, shutdown)
    /\ \/ UNCHANGED <<switch_events, state_file, trimmed_from>>
       \/ /\ pc = "save"
          /\ trimmed_from' = switch_events
          /\ switch_events' = _trim_switch_events(switch_events, today, config.MaxDays)
          /\ \E cut \in SaveCuts : state_file' = Truncated(cut)
    /\ UNCHANGED <<config, today, now, dusk_dawn, offset_cache, result, outputs, device,
                   schedule_map, input_map, switch_states, commands,
                   config_changed, pass_status, dumped, config_file>>
    /\ UNCHANGED loopVars

\* the positions of run() at which the webhook server answers requests
Running == {"check", "evaluate", "reconcile", "save", "wait", "woken", "clear", "heartbeat"}

\* self.path of the requests the devices send: with and without a query
WebhookPaths == {"/shelly/webhook", "/shelly/webhook?input=I1"}

\* (mutant: the handler also empties the switch states of the controller)
WebhookClearsStates ==
    /\ pc \in Running
    /\ wakes.triggers < MaxTriggers
    /\ \E path \in WebhookPaths : webhook_args' = path
    /\ wake_event' = TRUE
    /\ wakes' = [wakes EXCEPT !.triggers = @ + 1]
    /\ switch_states' = << >>
    /\ UNCHANGED <<pc, telemetry, config, today, now, dusk_dawn, offset_cache, result, outputs,
                   device, schedule_map, input_map, switch_events, state_file, commands,
                   config_changed, pass_status, trimmed_from, dumped, config_file, signal_at>>

\* _ShellyWebhookHandler.do_GET in the thread of the webhook server:
\* controller.webhook_args = args; controller.wake_event.set()
Webhook ==
    /\ pc \in Running
    /\ wakes.triggers < MaxTriggers
    /\ \E path \in WebhookPaths : webhook_args' = path
    /\ wake_event' = wake_event_set(wake_event)
    /\ wakes' = [wakes EXCEPT !.triggers = @ + 1,
                              !.unserved = TRUE,
                              !.unseen = TRUE,
                              !.bursts = IF wakes.open THEN @ ELSE @ + 1,
                              !.open = TRUE,
                              !.held = IF pc \in {"woken", "clear"} THEN @ ELSE @ + 1]
    /\ UNCHANGED <<pc, telemetry>>
    /\ UNCHANGED restVars

(***************************************************************************)
(* The environment of the controller: what happened while it waited, seen  *)
(* when the wait has returned and the next cycle begins.                   *)
(***************************************************************************)
\* 02:00 07:00 22:30
LoopNows == {120, 420, 1350}

RECURSIVE NoOfEvents(_, _)
NoOfEvents(events, n) ==
    IF n = 0 THEN 0 ELSE Len(events[n].Events) + NoOfEvents(events, n - 1)

\* the local clock shows another time of the same day: time has passed, or
\* the clock was set back (the end of daylight saving time, a correction)
Tick ==
    /\ pc = "check"
    /\ NoOfEvents(switch_events, Len(switch_events)) < MaxLogged
    /\ \E t \in LoopNows : t # now /\ now' = t
    /\ UNCHANGED <<pc, config, today, dusk_dawn, offset_cache, result>>
    /\ UNCHANGED ctlVars

\* midnight has passed
Midnight ==
    /\ pc = "check"
    /\ today < MaxDay
    /\ today' = today + 1
    /\ now' = 120
    /\ UNCHANGED <<pc, config, dusk_dawn, offset_cache, result>>
    /\ UNCHANGED ctlVars

\* what one touch changes: an input or an output is operated by hand, a
\* device goes off line or comes back
DeviceChanges(dev) ==
    { [dev EXCEPT !.inp[i] = ~@] : i \in DOMAIN dev.inp }
    \cup { [dev EXCEPT !.out[o].State = ~@] : o \in DOMAIN dev.out }
    \cup { [dev EXCEPT !.out[o].online = ~@] : o \in DOMAIN dev.out }

DeviceChange ==
    /\ pc = "check"
    /\ NoOfEvents(switch_events, Len(switch_events)) < MaxLogged
    /\ \E dev \in DeviceChanges(device) : device' = dev
    /\ UNCHANGED <<pc, config, today, now, dusk_dawn, offset_cache, result, outputs,
                   schedule_map, input_map, switch_states, switch_events, state_file,
                   commands, config_changed, pass_status, trimmed_from, dumped>>
    /\ UNCHANGED loopVars
    /\ UNCHANGED <<config_file, signal_at>>

\* the configuration file was saved again
ConfigTouch ==
    /\ pc = "check"
    /\ ~config_changed
    /\ config_changed' = TRUE
    /\ UNCHANGED <<pc, config, today, now, dusk_dawn, offset_cache, result, outputs, device,
                   schedule_map, input_map, switch_states, switch_events, state_file,
                   commands, pass_status, trimmed_from, dumped>>
    /\ UNCHANGED loopVars
    /\ UNCHANGED <<config_file, signal_at>>

Next ==
    \/ Initialise
    \/ CheckConfig
    \/ EvaluateSwitchStates
    \/ ChangeSwitchStates
    \/ SaveState
    \/ Wait
    \/ WakeCheck
    \/ PingHeartbeat
    \/ Tick
    \/ Midnight
    \/ DeviceChange
    \/ ConfigTouch

(***************************************************************************)
(* The mapping specification: the controller is constructed and runs one   *)
(* cycle, for every list of known outputs and every list of rules drawn    *)
(* from a pool.  The rules of LightingControl and of InputControls are the *)
(* same list, one naming schedules and the other inputs.                   *)
(***************************************************************************)
OutputName(i) == <<"A", "B", "C", "D">>[i]

Output(name, group) == [Name |-> name, Group |-> group]

\* self.shelly_control.outputs: up to MaxOutputs outputs, each in group G or in none
OutputLists ==
    UNION { { [i \in 1..n |-> Output(OutputName(i), g[i])] : g \in [1..n -> {None, "G"}] } :
            n \in 0..MaxOutputs }

\* <<Type, Target, k>>: a rule for schedule Sk, or for input Ik; X is no output
RulePool ==
    { <<"default", None, 1>>, <<"default", None, 2>>,
      <<"switch", "A", 1>>, <<"switch", "A", 2>>, <<"switch", "B", 2>>,
      <<"switch", "X", 1>>, <<"switch group", "G", 1>> }

ScheduleName(k) == <<"S1", "S2">>[k]
InputName(k) == <<"I1", "I2">>[k]

LightingControlOf(rules) ==
    [n \in 1..Len(rules) |->
        [Type |-> rules[n][1], Target |-> rules[n][2], Schedule |-> ScheduleName(rules[n][3])]]

InputControlsOf(rules) ==
    [n \in 1..Len(rules) |->
        [Type |-> rules[n][1], Target |-> rules[n][2], Input |-> InputName(rules[n][3])]]

\* S1 is on from 06:00 to 22:00, S2 from 23:00 to 06:00
Schedule(name, on, off, ro) ==
    [Name |-> name, Events |-> <<Event(on, off, ro, <<"All">>, <<>>)>>]

DaySchedule == Schedule("S1", Clock(6, 0), Clock(22, 0), 0)
NightSchedule == Schedule("S2", Clock(23, 0), Clock(6, 0), 0)

RuleLists == {<< >>} \cup SeqsUpTo(RulePool, MaxRules)

MapConfigs ==
    { Config(<<DaySchedule, NightSchedule>>, LightingControlOf(r), InputControlsOf(r), 1) :
        r \in RuleLists }

\* the devices of the outputs and the inputs I1 and I2
Devices(outs, state, online, input_state) ==
    [out |-> [o \in { outs[i].Name : i \in 1..Len(outs) } |->
                 [State |-> state[o], online |-> online[o]]],
     inp |-> input_state]

NamesOf(outs) == { outs[i].Name : i \in 1..Len(outs) }

\* every output off and on line, no input operated
AllOff(outs) ==
    Devices(outs, [o \in NamesOf(outs) |-> FALSE], [o \in NamesOf(outs) |-> TRUE],
            [i \in {"I1", "I2"} |-> FALSE])

\* the fields of the controller as __init__ sets them before _initialise
Constructed ==
    /\ pc = "init"
    /\ dusk_dawn = << >>
    /\ offset_cache = EmptyCache
    /\ result = None
    /\ schedule_map = << >>
    /\ input_map = << >>
    /\ switch_states = << >>
    /\ switch_events = << >>
    /\ commands = << >>
    /\ config_changed = FALSE
    /\ pass_status = None
    /\ trimmed_from = << >>
    /\ wake_event = FALSE
    /\ telemetry = NoTelemetry
    /\ wakes = NoWakes
    /\ webhook_args = None

InitMap ==
    /\ Constructed
    /\ config \in MapConfigs
    /\ config_file = config
    /\ signal_at = None
    /\ outputs \in OutputLists
    /\ device = AllOff(outputs)
    /\ today = 0
    /\ now = 7 * 60
    /\ state_file = NoStateFile
    /\ dumped = NoDump

NextMap ==
    \/ Initialise
    \/ EvaluateSwitchStates
    \/ CheckConfig
    \/ ChangeSwitchStates
    \/ SaveState

SpecMap == InitMap /\ [][NextMap]_vars

(***************************************************************************)
(* The control loop with one output A under the default schedule S1, whose *)
(* event has a random offset.  A state file of a run of the day before may *)
(* be there when the controller starts.                                    *)
(***************************************************************************)
JitterSchedule == Schedule("S1", Clock(6, 0), Clock(22, 0), MaxJitter)

LoopConfig ==
    Config(<<JitterSchedule>>, LightingControlOf(<< <<"default", None, 1>> >>), << >>, 1)

\* what _save_state wrote at the end of the day before: the offsets of that
\* day, the switch state of A and the day's history
PreviousRun ==
    [RandomOffsets |-> (_generate_offset_key("S1", 0, "On", 0 - 1) :> 0)
                          @@ (_generate_offset_key("S1", 0, "Off", 0 - 1) :> 0),
     SwitchEvents |-> <<[Date |-> DateStr(0 - 1),
                         Events |-> <<SwitchEvent(7 * 60, "A", "ON", "S1", None),
                                      SwitchEvent(22 * 60 + 30, "A", "OFF", "S1", None)>>]>>]

PreviousRunFile ==
    [exists |-> TRUE,
     size |-> StateFileSize(PreviousRun.RandomOffsets, <<StateEntry("A", "S1", "OFF", None)>>,
                            <<JitterSchedule>>, PreviousRun.SwitchEvents),
     RandomOffsets |-> DumpOffsets(PreviousRun.RandomOffsets),
     SwitchEvents |-> DumpEvents(PreviousRun.SwitchEvents)]

\* what the controller finds when it starts: no state file, or the file of
\* the run of the day before
Stored == { <<NoStateFile, NoDump>>, <<PreviousRunFile, PreviousRun>> }

InitLoop ==
    /\ Constructed
    /\ config = LoopConfig
    /\ config_file = config
    /\ signal_at = None
    /\ outputs = <<Output("A", None)>>
    /\ device \in { Devices(outputs, [o \in {"A"} |-> st], [o \in {"A"} |-> TRUE], << >>) :
                        st \in BOOLEAN }
    /\ today = 0
    /\ now \in LoopNows
    /\ \E st \in Stored : state_file = st[1] /\ dumped = st[2]

\* the cycles of the loop, configuration reloads and the days passing
NextDay ==
    \/ Initialise
    \/ CheckConfig
    \/ EvaluateSwitchStates
    \/ ChangeSwitchStates
    \/ SaveState
    \/ Wait
    \/ WakeCheck
    \/ PingHeartbeat
    \/ Midnight
    \/ ConfigTouch

Spec == InitLoop /\ [][NextDay]_vars

\* one output A under a schedule anchored on dusk: from dusk-00:10 to 22:00
DuskConfig ==
    Config(<<Schedule("S1", Sun("dusk", "-", 0, 10), Clock(22, 0), 0)>>,
           LightingControlOf(<< <<"default", None, 1>> >>), << >>, 1)

InitDusk ==
    /\ Constructed
    /\ config = DuskConfig
    /\ config_file = config
    /\ signal_at = None
    /\ outputs = <<Output("A", None)>>
    /\ device \in { Devices(outputs, [o \in {"A"} |-> st], [o \in {"A"} |-> TRUE], << >>) :
                        st \in BOOLEAN }
    /\ today = 0
    /\ now \in LoopNows
    /\ state_file = NoStateFile
    /\ dumped = NoDump

SpecDusk == InitDusk /\ [][NextDay]_vars

(***************************************************************************)
(* The history: one output A under S1 without a random offset; the clock   *)
(* moves, the days pass and the output is operated by hand, so that the    *)
(* controller records events of several days and in any order of time.     *)
(***************************************************************************)
HistConfig ==
    Config(<<DaySchedule>>, LightingControlOf(<< <<"default", None, 1>> >>), << >>, 1)

InitHist ==
    /\ Constructed
    /\ config = HistConfig
    /\ config_file = config
    /\ signal_at = None
    /\ outputs = <<Output("A", None)>>
    /\ device \in { Devices(outputs, [o \in {"A"} |-> st], [o \in {"A"} |-> TRUE], << >>) :
                        st \in BOOLEAN }
    /\ today = 0
    /\ now \in LoopNows
    /\ state_file = NoStateFile
    /\ dumped = NoDump

SpecHist == InitHist /\ [][Next]_vars


(***************************************************************************)
(* Reconciliation: two outputs A and B under the default schedule S1, with *)
(* no input, with the input I1 on A or with I1 on both; the devices start  *)
(* in every combination of states.                                         *)
(***************************************************************************)
ReconConfigs ==
    { Config(<<DaySchedule, NightSchedule>>, LightingControlOf(<< <<"default", None, 1>> >>),
             InputControlsOf(r), 1) :
        r \in { << >>, << <<"switch", "A", 1>> >>, << <<"default", None, 1>> >> } }

InitRecon ==
    /\ Constructed
    /\ config \in ReconConfigs
    /\ config_file = config
    /\ signal_at = None
    /\ outputs = <<Output("A", None), Output("B", None)>>
    /\ device \in { Devices(outputs, st, on, inp) :
                        st \in [{"A", "B"} -> BOOLEAN], on \in [{"A", "B"} -> BOOLEAN],
                        inp \in [{"I1"} -> BOOLEAN] }
    /\ today = 0
    /\ now \in {2 * 60, 7 * 60}
    /\ state_file = NoStateFile
    /\ dumped = NoDump

NextRecon ==
    \/ Initialise
    \/ CheckConfig
    \/ EvaluateSwitchStates
    \/ ChangeSwitchStates
    \/ SaveState
    \/ Wait
    \/ WakeCheck
    \/ PingHeartbeat

SpecRecon == InitRecon /\ [][NextRecon]_vars

\* the same with the webhook: cycles begin when the wait times out and when
\* a webhook call ends it
NextCycles ==
    \/ NextRecon
    \/ ClearWake
    \/ Webhook

SpecCycles == InitRecon /\ [][NextCycles]_vars

(***************************************************************************)
(* Persistence: the process is stopped while it waits and started again,   *)
(* so that a new controller loads what the last one saved.  There is one   *)
(* output A or none, and the schedule S1, drawn on Mondays only (day 0),   *)
(* or no schedule at all.                                                  *)
(***************************************************************************)
\* main() runs again: __init__ sets the fields anew, the state file stays
Restart ==
    /\ pc = "wait"
    /\ pc' = "init"
    /\ dusk_dawn' = << >>
    /\ offset_cache' = EmptyCache
    /\ schedule_map' = << >>
    /\ input_map' = << >>
    /\ switch_states' = << >>
    /\ switch_events' = << >>
    /\ commands' = << >>
    /\ config_changed' = FALSE
    /\ pass_status' = None
    /\ wake_event' = FALSE
    /\ UNCHANGED <<config, today, now, result, outputs, device, state_file, trimmed_from,
                   dumped, telemetry, wakes, config_file, signal_at, webhook_args>>

MondaySchedule ==
    [Name |-> "S1",
     Events |-> <<Event(Clock(6, 0), Clock(22, 0), MaxJitter, <<"Mon">>, <<>>)>>]

StoreConfigs ==
    { Config(schedules, LightingControlOf(<< <<"default", None, 1>> >>), << >>, 1) :
        schedules \in { << >>, <<MondaySchedule>> } }

InitStore ==
    /\ Constructed
    /\ config \in StoreConfigs
    /\ config_file = config
    /\ signal_at = None
    /\ outputs \in { << >>, <<Output("A", None)>> }
    /\ device = AllOff(outputs)
    /\ today = 0
    /\ now = 7 * 60
    /\ \E st \in Stored : state_file = st[1] /\ dumped = st[2]

NextStore ==
    \/ Initialise
    \/ CheckConfig
    \/ EvaluateSwitchStates
    \/ ChangeSwitchStates
    \/ SaveState
    \/ Wait
    \/ WakeCheck
    \/ PingHeartbeat
    \/ Midnight
    \/ ConfigTouch
    \/ Restart

SpecStore == InitStore /\ [][NextStore]_vars

(***************************************************************************)
(* The loop and the webhook server: one output A under S1 at 07:00, the    *)
(* viewer and the heartbeat monitor configured, and webhook calls arriving *)
(* at any position of the loop.                                            *)
(***************************************************************************)
WakeConfig ==
    [HistConfig EXCEPT !.WebsiteBaseURL = "https://viewer", !.HeartbeatURL = "https://monitor"]

InitWake ==
    /\ Constructed
    /\ config = WakeConfig
    /\ config_file = config
    /\ signal_at = None
    /\ outputs = <<Output("A", None)>>
    /\ device \in { Devices(outputs, [o \in {"A"} |-> st], [o \in {"A"} |-> TRUE], << >>) :
                        st \in BOOLEAN }
    /\ today = 0
    /\ now = 7 * 60
    /\ state_file = NoStateFile
    /\ dumped = NoDump

NextWake ==
    \/ Initialise
    \/ CheckConfig
    \/ EvaluateSwitchStates
    \/ ChangeSwitchStates
    \/ SaveState
    \/ Wait
    \/ WakeCheck
    \/ ClearWake
    \/ PingHeartbeat
    \/ Webhook

SpecWake == InitWake /\ [][NextWake]_vars

(***************************************************************************)
(* The process: main() constructs the controller and runs it; the          *)
(* Location of the configuration is the map link, or asks a device and has *)
(* neither link nor Latitude and Longitude (the schema requires only Name  *)
(* and Timezone); a termination signal may arrive while run() runs.        *)
(***************************************************************************)
DeviceLocation ==
    [UseShellyDevice |-> "Shelly1", GoogleMapsURL |-> Absent,
     Timezone |-> "Europe/London", Latitude |-> Absent, Longitude |-> Absent]

TopConfigs == { [WakeConfig EXCEPT !.Location = loc] : loc \in {HomeLocation, DeviceLocation} }

InitTop ==
    /\ Constructed
    /\ config \in TopConfigs
    /\ config_file = config
    /\ signal_at = None
    /\ outputs = <<Output("A", None)>>
    /\ device \in { Devices(outputs, [o \in {"A"} |-> st], [o \in {"A"} |-> TRUE], << >>) :
                        st \in BOOLEAN }
    /\ today = 0
    /\ now = 7 * 60
    /\ state_file = NoStateFile
    /\ dumped = NoDump

NextTop ==
    \/ Initialise
    \/ CheckConfig
    \/ EvaluateSwitchStates
    \/ ChangeSwitchStates
    \/ SaveState
    \/ Wait
    \/ WakeCheck
    \/ PingHeartbeat
    \/ MainExcept
    \/ Signal

SpecTop == InitTop /\ [][NextTop]_vars

(***************************************************************************)
(* Reloads: the configuration file is edited while the loop runs.  The     *)
(* default rule names S1 or S2, the input I1 is mapped to A or not, and    *)
(* the Location is the map link or asks a device.                          *)
(***************************************************************************)
ReloadConfigs ==
    { [Config(<<DaySchedule, NightSchedule>>, LightingControlOf(<< <<"default", None, k>> >>),
              InputControlsOf(r), 1) EXCEPT !.Location = loc] :
        k \in {1, 2}, r \in { << >>, << <<"switch", "A", 1>> >> },
        loc \in {HomeLocation, DeviceLocation} }

\* the RandomOffset of the event of S1 is edited between two values
JitterConfigs ==
    { Config(<<Schedule("S1", Clock(6, 0), Clock(22, 0), ro)>>,
             LightingControlOf(<< <<"default", None, 1>> >>), << >>, 1) :
        ro \in {MaxJitter, MaxJitter + 1} }

\* SavedStateFile is edited to the other name (and not back)
MovedConfig == [HistConfig EXCEPT !.SavedStateFile = "lights_state.json"]

\* the contents an editor gives the file
Editions(cfg) ==
    IF cfg \in JitterConfigs THEN JitterConfigs
    ELSE IF cfg \in {HistConfig, MovedConfig} THEN {MovedConfig}
    ELSE ReloadConfigs

FirstConfig ==
    Config(<<DaySchedule, NightSchedule>>, LightingControlOf(<< <<"default", None, 1>> >>),
           << >>, 1)

\* the configuration file is saved with another content
ConfigEdit ==
    /\ pc \in {"check", "evaluate", "reconcile", "save", "wait", "woken", "heartbeat"}
    /\ NoOfEvents(switch_events, Len(switch_events)) < MaxLogged
    /\ \E cfg \in Editions(config_file) \ {config_file} : config_file' = cfg
    /\ config_changed' = TRUE
    /\ UNCHANGED <<pc, config, today, now, dusk_dawn, offset_cache, result, outputs, device,
                   schedule_map, input_map, switch_states, switch_events, state_file,
                   commands, pass_status, trimmed_from, dumped, signal_at>>
    /\ UNCHANGED loopVars

InitReload ==
    /\ Constructed
    /\ config = FirstConfig
    /\ config_file = config
    /\ signal_at = None
    /\ outputs = <<Output("A", None)>>
    /\ device = Devices(outputs, [o \in {"A"} |-> FALSE], [o \in {"A"} |-> TRUE],
                        [i \in {"I1"} |-> FALSE])
    /\ today = 0
    /\ now = 7 * 60
    /\ state_file = NoStateFile
    /\ dumped = NoDump

NextReload ==
    \/ Initialise
    \/ CheckConfig
    \/ EvaluateSwitchStates
    \/ ChangeSwitchStates
    \/ SaveState
    \/ Wait
    \/ WakeCheck
    \/ PingHeartbeat
    \/ ConfigEdit

SpecReload == InitReload /\ [][NextReload]_vars

InitJitter ==
    /\ Constructed
    /\ config \in JitterConfigs
    /\ config_file = config
    /\ signal_at = None
    /\ outputs = <<Output("A", None)>>
    /\ device = Devices(outputs, [o \in {"A"} |-> FALSE], [o \in {"A"} |-> TRUE], << >>)
    /\ today = 0
    /\ now = 7 * 60
    /\ state_file = NoStateFile
    /\ dumped = NoDump

SpecJitter == InitJitter /\ [][NextReload]_vars

\* the configuration file is saved by an editor while reload_config runs: after
\* check_for_config_changes has read it and before config_last_check is set,
\* so that the modification time is earlier than config_last_check
EditDuringReload ==
    /\ check_for_config_changes(config_changed)
    /\ \E cfg \in Editions(config_file) \ {config_file} : BeginCycle(cfg)

NextRace ==
    \/ NextReload
    \/ EditDuringReload

SpecRace == InitReload /\ [][NextRace]_vars

\* the history grows while the clock moves, the days pass and the output is
\* operated by hand, and the configuration file is saved again or edited
NextMove ==
    \/ Next
    \/ ConfigEdit

SpecMove == InitHist /\ [][NextMove]_vars

(***************************************************************************)
(* What the claims about one evaluation speak of.                          *)
(***************************************************************************)
TheSchedule == config.Schedules[1]

\* the events of the schedule that pass the day-of-week filter today
Applicable ==
    { i \in 1..Len(TheSchedule.Events) :
        ~DaySkipped(TheSchedule.Events[i], WeekdayStr(today)) }

\* today is inside one of event i's [StartDate, EndDate] ranges (inclusive)
TodayExcluded(i) ==
    \E rng \in { TheSchedule.Events[i].DatesOff[k] : k \in 1..Len(TheSchedule.Events[i].DatesOff) } :
        rng.ok /\ today \in rng.StartDate..rng.EndDate

\* event i's offsets of today are in the cache, when it has a RandomOffset
OffsetsCached(i) ==
    TheSchedule.Events[i].RandomOffset # 0 =>
        \A mode \in {"On", "Off"} :
            _generate_offset_key(TheSchedule.Name, i - 1, mode, today) \in DOMAIN offset_cache

\* the time event i's TurnOn / TurnOff resolves to today, the cached offset applied
Resolved(i, mode) ==
    LET event == TheSchedule.Events[i]
        base_time == BaseTime(IF mode = "On" THEN event.TurnOn ELSE event.TurnOff, dusk_dawn)
    IN  IF event.RandomOffset # 0
        THEN AddMinutes(base_time,
                 offset_cache[_generate_offset_key(TheSchedule.Name, i - 1, mode, today)])
        ELSE base_time

\* event i is the only applicable event, no DatesOff range of it holds today
OnlyEvent(i) ==
    /\ pc = "evaluated"
    /\ Applicable = {i}
    /\ ~TodayExcluded(i)
    /\ OffsetsCached(i)

\* C1: when the only applicable event (no date exclusion) resolves to
\* on-time < off-time, _evaluate_schedule returns ON iff on-time <= now <
\* off-time and OFF otherwise: inclusive at on-time, exclusive at off-time.
C1_SameDayWindow ==
    \A i \in 1..Len(TheSchedule.Events) :
        (OnlyEvent(i) /\ Resolved(i, "On") < Resolved(i, "Off")) =>
            /\ result \in {"ON", "OFF"}
            /\ result = "ON" <=> (Resolved(i, "On") <= now /\ now < Resolved(i, "Off"))
            /\ now = Resolved(i, "On") => result = "ON"
            /\ now = Resolved(i, "Off") => result = "OFF"

\* a jittered same-day window evaluated at its off-time: OFF
C1_Witness ==
    \E i \in 1..Len(TheSchedule.Events) :
        /\ OnlyEvent(i)
        /\ TheSchedule.Events[i].RandomOffset # 0
        /\ Resolved(i, "On") < Resolved(i, "Off")
        /\ now = Resolved(i, "Off")
        /\ result = "OFF"

\* C2: when the only applicable event resolves to on-time >= off-time
\* (overnight, on-time = off-time included), _evaluate_schedule returns ON iff
\* now >= on-time or now < off-time: ON at now = on-time, OFF at now =
\* off-time when on > off, and for 23:00..06:00 ON at 02:00 and OFF at 07:00.
C2_OvernightWindow ==
    \A i \in 1..Len(TheSchedule.Events) :
        (OnlyEvent(i) /\ Resolved(i, "On") >= Resolved(i, "Off")) =>
            /\ result \in {"ON", "OFF"}
            /\ result = "ON" <=> (now >= Resolved(i, "On") \/ now < Resolved(i, "Off"))
            /\ now = Resolved(i, "On") => result = "ON"
            /\ (now = Resolved(i, "Off") /\ Resolved(i, "On") > Resolved(i, "Off"))
                   => result = "OFF"
            /\ (Resolved(i, "On") = 23 * 60 /\ Resolved(i, "Off") = 6 * 60) =>
                   /\ now = 2 * 60 => result = "ON"
                   /\ now = 7 * 60 => result = "OFF"

\* the window 23:00..06:00 evaluated at 02:00: ON
C2_Witness ==
    \E i \in 1..Len(TheSchedule.Events) :
        /\ OnlyEvent(i)
        /\ Resolved(i, "On") = 23 * 60 /\ Resolved(i, "Off") = 6 * 60
        /\ now = 2 * 60
        /\ result = "ON"

\* now is inside event j's window as section 4.4 step 4 of the spec states it
InWindow(j) ==
    IF Resolved(j, "On") < Resolved(j, "Off")
    THEN Resolved(j, "On") <= now /\ now < Resolved(j, "Off")
    ELSE now >= Resolved(j, "On") \/ now < Resolved(j, "Off")

\* C6 as claimed: if today is inside an exclusion range of any event of the
\* schedule, _evaluate_schedule returns OFF whatever the on/off times and now.
C6_AnyEventExcluded ==
    (pc = "evaluated"
        /\ \E i \in 1..Len(TheSchedule.Events) : TodayExcluded(i))
    => result = "OFF"

\* C6 amended: if today is inside an exclusion range of an event that passes
\* the day-of-week filter, _evaluate_schedule returns OFF whatever the on/off
\* times of that event and of the later events, unless an earlier applicable
\* event has a window that contains now (the first match wins).
C6_DateOffPrecedence ==
    pc = "evaluated" =>
        \A i \in Applicable :
            (/\ TodayExcluded(i)
             /\ \A j \in Applicable : j < i => (OffsetsCached(j) /\ ~InWindow(j)))
            => result = "OFF"

\* the second event is excluded today and its own window contains now, the
\* first event applies and does not match: OFF
C6_Witness ==
    /\ pc = "evaluated"
    /\ Applicable = {1, 2}
    /\ ~TodayExcluded(1) /\ ~InWindow(1)
    /\ TodayExcluded(2) /\ InWindow(2)
    /\ result = "OFF"


(***************************************************************************)
(* What the claims about the two maps speak of.                            *)
(***************************************************************************)
KnownOutputs == { outputs[i].Name : i \in 1..Len(outputs) }

\* the explicit rules of a rule list that apply to the i-th known output
ExplicitRulesFor(controls, i) ==
    { n \in 1..Len(controls) :
        \/ controls[n].Type = "switch" /\ controls[n].Target = outputs[i].Name
        \/ /\ controls[n].Type = "switch group"
           /\ outputs[i].Group # None
           /\ controls[n].Target = outputs[i].Group }

DefaultRules(controls) == { n \in 1..Len(controls) : controls[n].Type = "default" }

FirstOf(S) == CHOOSE n \in S : \A k \in S : n <= k

EntriesFor(map, name) == { k \in 1..Len(map) : map[k][1] = name }

Mapped == pc # "init"

\* C7: in both mapping passes an output to which two or more explicit rules
\* (switch or switch group) apply keeps the schedule, respectively the input,
\* of the rule that comes first in the list; a later rule never overwrites
\* it, and the mapping completes (the constructor goes on to evaluate).
C7_FirstRuleWins ==
    Mapped =>
        \A i \in 1..Len(outputs) :
            LET sched_rules == ExplicitRulesFor(config.LightingControl, i)
                input_rules == ExplicitRulesFor(config.InputControls, i)
            IN  /\ sched_rules # {} =>
                    DictGet(schedule_map, outputs[i].Name)
                        = config.LightingControl[FirstOf(sched_rules)].Schedule
                /\ input_rules # {} =>
                    DictGet(input_map, outputs[i].Name)
                        = config.InputControls[FirstOf(input_rules)].Input

\* two rules naming different schedules and inputs apply to an output, and
\* the maps hold those of the first
C7_Witness ==
    /\ Mapped
    /\ \E i \in 1..Len(outputs) :
        LET rules == ExplicitRulesFor(config.LightingControl, i)
        IN  /\ \E n \in rules :
                /\ n # FirstOf(rules)
                /\ config.LightingControl[n].Schedule
                     # config.LightingControl[FirstOf(rules)].Schedule
            /\ DictGet(schedule_map, outputs[i].Name)
                 = config.LightingControl[FirstOf(rules)].Schedule
            /\ DictGet(input_map, outputs[i].Name)
                 = config.InputControls[FirstOf(rules)].Input

\* C8: after the schedule mapping with at least one known output, every
\* known output has exactly one entry in the schedule map; an output that no
\* explicit rule assigns has the schedule of the default rule; if there is
\* no default rule while some output is unassigned, the evaluation ends in
\* the fatal error, so no switch state and no device command ever comes from
\* a null schedule.
C8_OneSchedulePerOutput ==
    /\ (Mapped /\ Len(outputs) > 0) =>
        \A i \in 1..Len(outputs) :
            /\ Cardinality(EntriesFor(schedule_map, outputs[i].Name)) = 1
            /\ ExplicitRulesFor(config.LightingControl, i) = {} =>
                 DictGet(schedule_map, outputs[i].Name)
                    = IF DefaultRules(config.LightingControl) = {}
                      THEN None
                      ELSE config.LightingControl[
                               FirstOf(DefaultRules(config.LightingControl))].Schedule
    /\ pc \in {"check", "evaluate", "reconcile", "save", "wait", "crashed"} =>
        \A o \in KnownOutputs : DictGet(schedule_map, o) # None
    /\ \A k \in 1..Len(switch_states) : switch_states[k].Schedule # None
    /\ \A k \in 1..Len(commands) : DictGet(schedule_map, commands[k].Switch) # None

\* an output that no explicit rule assigns is governed by the default
\* schedule, evaluated and commanded with it
C8_Witness ==
    /\ pc = "wait"
    /\ \E i \in 1..Len(outputs) :
        /\ ExplicitRulesFor(config.LightingControl, i) = {}
        /\ \E j \in 1..Len(outputs) : ExplicitRulesFor(config.LightingControl, j) # {}
        /\ DictGet(schedule_map, outputs[i].Name) = "S1"
        /\ \E k \in 1..Len(switch_states) :
            /\ switch_states[k].Switch = outputs[i].Name
            /\ switch_states[k].Schedule = "S1"
        /\ \E k \in 1..Len(commands) : commands[k].Switch = outputs[i].Name

\* C9: for every rule list, also one with switch rules whose Target names no
\* known output, every key of the schedule map is the name of a known
\* output, and every switch state built from it refers to an output
\* component that exists.
C9_KeysAreKnownOutputs ==
    Mapped =>
        /\ DictKeys(schedule_map) \subseteq KnownOutputs
        /\ \A k \in 1..Len(switch_states) : switch_states[k].Switch \in DOMAIN device.out


(***************************************************************************)
(* What the claims about the offset cache and the history speak of.        *)
(***************************************************************************)
\* C5: within one calendar day an entry of the offset cache for a key of
\* that day, once it exists, stays in the cache with the same value under
\* every step of the controller (evaluate, reconcile, save, wait and the
\* reload of the configuration with its _load_state).
C5_OffsetsNeverChange ==
    [][today' = today =>
        \A key \in DOMAIN offset_cache :
            key[1] = DateStr(today) =>
                /\ key \in DOMAIN offset_cache'
                /\ offset_cache'[key] = offset_cache[key]]_vars

Older(date, day, max_days) == LexLess(date, DateStr(day - max_days))

Ascending(s, key) ==
    \A k \in 1..(Len(s) - 1) : ~LexLess(s[k + 1][key], s[k][key])

\* the events of a bucket, counted
EventBag(events) ==
    [e \in { events[k] : k \in 1..Len(events) } |->
        Cardinality({ k \in 1..Len(events) : events[k] = e })]

Saved == pc = "wait"

\* C10: after the _trim_switch_events of a _save_state with a retention of N
\* days the history holds no bucket dated before today minus N days, holds
\* every bucket of before that is not older (with the same events), has its
\* buckets in ascending order of date and the events of every bucket in
\* ascending order of time.
C10_TrimmedHistory ==
    Saved =>
        LET kept == { j \in 1..Len(trimmed_from) :
                        ~Older(trimmed_from[j].Date, today, config.MaxDays) }
        IN  /\ \A k \in 1..Len(switch_events) :
                    ~Older(switch_events[k].Date, today, config.MaxDays)
            /\ Len(switch_events) = Cardinality(kept)
            /\ \A j \in kept :
                \E k \in 1..Len(switch_events) :
                    /\ switch_events[k].Date = trimmed_from[j].Date
                    /\ EventBag(switch_events[k].Events) = EventBag(trimmed_from[j].Events)
            /\ Ascending(switch_events, "Date")
            /\ \A k \in 1..Len(switch_events) : Ascending(switch_events[k].Events, "Time")

\* a save that dropped a bucket older than the cutoff and kept the bucket
\* dated at the cutoff
C10_Witness ==
    /\ Saved
    /\ \E j \in 1..Len(trimmed_from) : Older(trimmed_from[j].Date, today, config.MaxDays)
    /\ \E k \in 1..Len(switch_events) :
            switch_events[k].Date = DateStr(today - config.MaxDays)
    /\ Len(switch_events) < Len(trimmed_from)


(***************************************************************************)
(* What the claims about a reconciliation pass speak of: a step of         *)
(* change_switch_states whose refresh of the device statuses succeeded,    *)
(* the devices as the pass found them and the commands and events it left. *)
(***************************************************************************)
ReconcilePass == pc = "reconcile" /\ pass_status' \notin {"aborted", "timeout"}

TodaysEvents(events) ==
    LET todays == { k \in 1..Len(events) : events[k].Date = DateStr(today) }
    IN  IF todays = {} THEN << >> ELSE events[FirstOf(todays)].Events

\* the events the pass recorded for an output
RecordedFor(o) ==
    LET before == TodaysEvents(switch_events)
        after == TodaysEvents(switch_events')
    IN  { after[k] : k \in { j \in (Len(before) + 1)..Len(after) : after[j].Switch = o } }

NoRecordedFor(o) ==
    Cardinality({ j \in (Len(TodaysEvents(switch_events)) + 1)..Len(TodaysEvents(switch_events')) :
                    TodaysEvents(switch_events')[j].Switch = o })

\* the change_output calls of the pass for an output
CommandsFor(o) == { k \in 1..Len(commands') : commands'[k].Switch = o }

Online(i) ==
    /\ switch_states[i].Switch \in DOMAIN device.out
    /\ device.out[switch_states[i].Switch].online

InputReadsOn(i) ==
    /\ switch_states[i].Input \notin {None, ""}
    /\ switch_states[i].Input \in DOMAIN device.inp
    /\ device.inp[switch_states[i].Input]

InputReadsOff(i) ==
    \/ switch_states[i].Input \in {None, ""}
    \/ /\ switch_states[i].Input \in DOMAIN device.inp
       /\ ~device.inp[switch_states[i].Input]

\* C3: in change_switch_states every online output whose mapped input reads
\* ON is forced ON whatever its schedule says: if the live output is OFF
\* exactly one ON command is issued and, the device taking it, exactly one
\* event is recorded whose cause is the input (Schedule null); if the live
\* output is ON there is no command and no event; in both cases the State
\* of the switch state becomes ON.
C3_InputOverride ==
    [][ReconcilePass =>
        \A i \in 1..Len(switch_states) :
            LET o == switch_states[i].Switch
            IN  (Online(i) /\ InputReadsOn(i)) =>
                    IF device.out[o].State
                    THEN /\ CommandsFor(o) = {}
                         /\ NoRecordedFor(o) = 0
                         /\ switch_states'[i].State = "ON"
                    ELSE /\ Cardinality(CommandsFor(o)) = 1
                         /\ \A k \in CommandsFor(o) :
                              /\ commands'[k].On
                              /\ commands'[k].ok =>
                                   /\ NoRecordedFor(o) = 1
                                   /\ \A e \in RecordedFor(o) :
                                        /\ e.Input = switch_states[i].Input
                                        /\ e.Schedule = None
                                        /\ e.State = "ON"
                                   /\ switch_states'[i].State = "ON"]_vars

\* C4: in change_switch_states, for every online output with no override
\* (no mapped input, or the input reads OFF): if the state the schedule asks
\* for differs from the live state exactly one command setting that state is
\* issued and, the device taking it, exactly one event tagged with the name
\* of the governing schedule is recorded; if they are equal there is no
\* command and no event.
C4_ScheduleReconcile ==
    [][ReconcilePass =>
        \A i \in 1..Len(switch_states) :
            LET o == switch_states[i].Switch
                desired == switch_states[i].State
            IN  (Online(i) /\ InputReadsOff(i)) =>
                    IF desired = (IF device.out[o].State THEN "ON" ELSE "OFF")
                    THEN /\ CommandsFor(o) = {}
                         /\ NoRecordedFor(o) = 0
                    ELSE /\ Cardinality(CommandsFor(o)) = 1
                         /\ \A k \in CommandsFor(o) :
                              /\ commands'[k].On = (desired = "ON")
                              /\ commands'[k].ok =>
                                   /\ NoRecordedFor(o) = 1
                                   /\ \A e \in RecordedFor(o) :
                                        /\ e.Schedule = switch_states[i].Schedule
                                        /\ e.Input = None
                                        /\ e.State = desired]_vars


(***************************************************************************)
(* What the claims about the buckets of the history speak of.              *)
(***************************************************************************)
UniqueDates(events) ==
    \A j, k \in 1..Len(events) : events[j].Date = events[k].Date => j = k

\* C11: the history, empty at the start, has at most one bucket per date
\* after every step (events recorded, histories trimmed, days passing), and
\* the events a reconciliation pass records go to the bucket of the day of
\* the pass: the buckets of other dates stay as they are and today's bucket
\* grows by one event per command the device took.
C11_OneBucketPerDate ==
    [][/\ UniqueDates(switch_events')
       /\ pc = "reconcile" =>
            /\ \A k \in 1..Len(switch_events') :
                 switch_events'[k].Date # DateStr(today) =>
                    \E j \in 1..Len(switch_events) : switch_events[j] = switch_events'[k]
            /\ Len(TodaysEvents(switch_events')) - Len(TodaysEvents(switch_events))
                 = Cardinality({ k \in 1..Len(commands') : commands'[k].ok })
            /\ NoOfEvents(switch_events', Len(switch_events'))
                    - NoOfEvents(switch_events, Len(switch_events))
                 = Cardinality({ k \in 1..Len(commands') : commands'[k].ok })]_vars

\* a second event of the day was recorded into the bucket the day already
\* had, next to the bucket of the day before
C11_Witness ==
    /\ pass_status = "done"
    /\ Len(commands) = 1
    /\ Len(TodaysEvents(switch_events)) >= 2
    /\ \E k \in 1..Len(switch_events) : switch_events[k].Date = DateStr(today - 1)
    /\ today >= 1


(***************************************************************************)
(* What the claims about the state file speak of: a step that loads the    *)
(* file, in __init__ or in a reload of the configuration.                  *)
(***************************************************************************)
LoadStep == pc = "init" \/ (pc = "check" /\ config_changed /\ ~config_changed')

\* C12 as claimed: _load_state after _save_state restores exactly the
\* RandomOffsets (same keys, same values) and exactly the SwitchEvents (same
\* buckets and events in the same order) that were written, for every state
\* that can be saved.
C12_RoundTripAlways ==
    [][(LoadStep /\ state_file.exists) =>
        /\ offset_cache' = dumped.RandomOffsets
        /\ switch_events' = dumped.SwitchEvents]_vars

\* C12, amended: _load_state after _save_state restores exactly the
\* RandomOffsets and the SwitchEvents that were written when the file
\* written has at least 500 bytes; a shorter file is not read and the
\* offsets and events in memory stay as they are.
C12_RoundTrip ==
    [][LoadStep =>
        IF state_file.exists /\ state_file.size >= 500
        THEN /\ offset_cache' = dumped.RandomOffsets
             /\ switch_events' = dumped.SwitchEvents
        ELSE UNCHANGED <<offset_cache, switch_events>>]_vars

\* a new controller has loaded the offsets drawn today and the history that
\* the one before it saved
C12_Witness ==
    /\ pc = "init_eval"
    /\ \E key \in DOMAIN offset_cache : key[1] = DateStr(0)
    /\ Len(switch_events) > 0
    /\ offset_cache = dumped.RandomOffsets
    /\ switch_events = dumped.SwitchEvents


(***************************************************************************)
(* What the claims about the loop speak of: the order of its phases.       *)
(***************************************************************************)
PhaseOrder ==
    { <<"init", "init_eval">>, <<"init_eval", "check">>, <<"check", "evaluate">>,
      <<"evaluate", "reconcile">>, <<"reconcile", "save">>, <<"save", "wait">>,
      <<"wait", "woken">>, <<"woken", "clear">>, <<"woken", "heartbeat">>,
      <<"clear", "heartbeat">>, <<"heartbeat", "check">> }

\* C13 as claimed: every cycle of the loop goes through its phases in the
\* order configuration check, evaluate, reconcile, persist, wait, heartbeat;
\* the reconciliation follows the evaluation of its cycle, the state is
\* persisted after every reconciliation, and the loop then begins the next
\* cycle: no step leaves this order.
C13_PhasesInOrder ==
    [][pc' # pc => <<pc, pc'>> \in PhaseOrder]_vars


\* C14 as claimed: no wake is lost.  A webhook call that set the wake signal
\* is followed by a cycle of the loop that begins after the call without a
\* wait for the timer (while a call is unserved the loop never waits with the
\* flag clear), and the loop never clears a flag set by a call that came
\* after the loop last looked at the flag.
C14_NoWakeLost ==
    [][/\ (pc' = "wait" /\ wakes'.unserved) => wake_event'
       /\ (wake_event /\ ~wake_event') => ~wakes.unseen]_vars


C20_TelemetryNeverFatal ==
    [][/\ (pc = "save" /\ pc' # pc /\ telemetry'.post \notin {None, "ok"}) => pc' = "wait"
       /\ (pc = "heartbeat" /\ pc' # pc /\ telemetry'.ping \notin {None, "ok"}) =>
            pc' = "check"]_vars


(***************************************************************************)
(* What the claims about failures in change_switch_states speak of.        *)
(***************************************************************************)
LoopPhases == {"check", "evaluate", "reconcile", "save", "wait", "woken", "clear", "heartbeat"}

\* an online output whose live state is not the state the pass is to give it
NeedsCommand(i) ==
    /\ Online(i)
    /\ IF InputReadsOn(i)
       THEN ~device.out[switch_states[i].Switch].State
       ELSE InputReadsOff(i)
            /\ switch_states[i].State # OnOff(device.out[switch_states[i].Switch].State)

C17_CommandFailureRecoverable ==
    [][(pc = "reconcile" /\ \E k \in 1..Len(commands') : ~commands'[k].ok) =>
        /\ \A k \in 1..Len(commands') :
             ~commands'[k].ok => NoRecordedFor(commands'[k].Switch) = 0
        /\ pass_status' = "done"
        /\ pc' = "save"]_vars

\* C18 as claimed: a refresh of the device statuses that times out is a
\* recoverable failure of that cycle: the loop goes on to persist and wait
\* and the process does not end.
C18_RefreshTimeoutRecoverable ==
    [][(pc = "reconcile" /\ pass_status' = "timeout") => pc' = "save"]_vars

\* C19: in a pass whose refresh succeeded, for every output reported off
\* line no command is issued, no event is recorded and its switch state stays
\* as the evaluation left it, whatever its schedule state and its input; a
\* command is still issued for every other online output that needs one.
C19_OfflineSkipped ==
    [][ReconcilePass =>
        \A i \in 1..Len(switch_states) :
            LET o == switch_states[i].Switch
            IN  (o \in DOMAIN device.out /\ ~device.out[o].online) =>
                    /\ CommandsFor(o) = {}
                    /\ NoRecordedFor(o) = 0
                    /\ switch_states'[i] = switch_states[i]
                    /\ device'.out[o] = device.out[o]
                    /\ \A j \in 1..Len(switch_states) :
                         NeedsCommand(j) =>
                            Cardinality(CommandsFor(switch_states[j].Switch)) = 1]_vars

\* a pass has left alone an offline output whose input reads ON and whose
\* live state is OFF, and has switched the other output
C19_Witness ==
    /\ pc = "save"
    /\ pass_status = "done"
    /\ Len(commands) = 1
    /\ \E i \in 1..Len(switch_states) :
        /\ ~device.out[switch_states[i].Switch].online
        /\ ~device.out[switch_states[i].Switch].State
        /\ switch_states[i].Input # None
        /\ device.inp[switch_states[i].Input]
        /\ commands[1].Switch # switch_states[i].Switch
        /\ commands[1].ok


(***************************************************************************)
(* What the claims about the end of the process speak of.                  *)
(***************************************************************************)
\* C21 as claimed: every exception that reaches the except clause of main(),
\* raised by the constructor of LightingController or by run(), is followed
\* by a failure heartbeat and the record of a fatal error before the process
\* ends.
C21_FailureHeartbeatThenFatal ==
    [][(pc \in {"raised_init", "crashed"} /\ pc' # pc) =>
        (pc' = "fatal" /\ telemetry'.fail # None)]_vars

\* C23: a termination request that arrives while the loop is blocked in its
\* wait ends the wait at once and the process stops: no step of the loop
\* follows, neither the rest of the wait nor another cycle.
C23_SignalPreemptsWait ==
    [][/\ signal_at' = "wait" => pc' = "stopped"
       /\ pc # "stopped"]_vars

\* the signal came while the loop waited after a save, and the process has
\* stopped
C23_Witness ==
    /\ signal_at = "wait"
    /\ pc = "stopped"
    /\ state_file.exists


\* C22: when the probe at the top of a cycle reports a change, the whole
\* initialisation (dawn and dusk, schedule map, input map, offsets and
\* history of the state file) is done with the new configuration before the
\* evaluation of that cycle, so every evaluation and every reconciliation
\* works with maps made from the configuration in memory, never with maps of
\* the configuration that was replaced.
C22_ReloadBeforeEvaluation ==
    [][/\ (pc = "check" /\ config_changed /\ pc' = "evaluate") =>
            /\ config' = config_file
            /\ ~config_changed'
            /\ schedule_map' = _map_schedules_to_outputs(outputs, config_file.LightingControl)
            /\ input_map' = _map_inputs_to_outputs(outputs, config_file.InputControls)
            /\ \E shelly_loc \in ShellyFor(config_file.Location) :
                 dusk_dawn' = sun(resolve_location(config_file.Location, shelly_loc).lat, today)
            /\ offset_cache' = _load_state(state_file, offset_cache, switch_events).cache
            /\ switch_events' = _load_state(state_file, offset_cache, switch_events).events
       /\ (pc = "check" /\ config_changed) => pc' \in {"check", "evaluate", "fatal", "crashed"}
       /\ pc' \in {"evaluate", "reconcile"} =>
            /\ schedule_map' = _map_schedules_to_outputs(outputs', config'.LightingControl)
            /\ input_map' = _map_inputs_to_outputs(outputs', config'.InputControls)]_vars

\* the file was edited to name S2 and to map I1 to A; the loop has reloaded
\* it and is about to reconcile with the new maps
C22_Witness ==
    /\ pc = "reconcile"
    /\ config # FirstConfig
    /\ DictGet(schedule_map, "A") = "S2"
    /\ DictGet(input_map, "A") = "I1"
    /\ switch_states[1].Schedule = "S2"
    /\ switch_states[1].Input = "I1"


\* C24: the state file is replaced whole: whenever the content of the file
\* changes, also when the process stops in the middle of _save_state, the
\* file holds the complete snapshot of the state being saved (and before the
\* change it held the complete previous one); it is never empty or cut short.
C24_WholeFileReplace ==
    [][state_file' # state_file =>
        /\ state_file'.exists
        /\ state_file'.size = StateFileSize(offset_cache', switch_states', config'.Schedules,
                                            switch_events')
        /\ state_file'.RandomOffsets = DumpOffsets(offset_cache')
        /\ state_file'.SwitchEvents = DumpEvents(switch_events')]_vars


\* the minutes a time spec names before any jitter: the clock time, or dawn
\* or dusk with its signed offset
Named(ts) ==
    IF ts.base = "clock"
    THEN ts.hh * 60 + ts.mm
    ELSE dusk_dawn[ts.base] + (CASE ts.sign = "+" -> ts.hh * 60 + ts.mm
                                 [] ts.sign = "-" -> 0 - (ts.hh * 60 + ts.mm)
                                 [] OTHER -> 0)

\* the offsets of event i are known: it has none, or both are in the cache
Drawn(i) ==
    \/ config.Schedules[1].Events[i].RandomOffset = 0
    \/ /\ <<DateStr(today), config.Schedules[1].Name, i - 1, "On">> \in DOMAIN offset_cache
       /\ <<DateStr(today), config.Schedules[1].Name, i - 1, "Off">> \in DOMAIN offset_cache

\* (base + signed offset + cached jitter) modulo 24 hours
ResolvedTime(i, mode) ==
    LET event == config.Schedules[1].Events[i]
        ts == IF mode = "On" THEN event.TurnOn ELSE event.TurnOff
        jitter == IF event.RandomOffset = 0
                  THEN 0
                  ELSE offset_cache[<<DateStr(today), config.Schedules[1].Name, i - 1, mode>>]
    IN  (Named(ts) + jitter) % MinutesPerDay

\* now is inside the window of event i on the resolved times
InResolvedWindow(i) ==
    LET on == ResolvedTime(i, "On")
        off == ResolvedTime(i, "Off")
    IN  IF on < off THEN on <= now /\ now < off ELSE now >= on \/ now < off

EveningExample ==
    [Name |-> "Evening",
     Events |-> <<Event(Sun("dusk", "-", 0, 10), Clock(22, 0), 0, <<"All">>, <<>>)>>]

\* C25: a dawn or dusk time with an optional signed HH:MM offset resolves to
\* (base + signed offset + cached jitter) modulo 24 hours, and the schedule
\* is ON exactly when a window of these times contains now.  With dusk at
\* 18:30, "dusk-00:10" is 18:20: a schedule from there to 22:00 is ON at
\* 18:25 and OFF at 22:00.
C25_SunTimesModuloDay ==
    pc = "evaluated" =>
        /\ result = "ON" <=>
             \E i \in 1..Len(config.Schedules[1].Events) : Drawn(i) /\ InResolvedWindow(i)
        /\ result = "OFF" => \A i \in 1..Len(config.Schedules[1].Events) : Drawn(i)
        /\ config.Schedules[1] = EveningExample =>
             /\ dusk_dawn.dusk = 18 * 60 + 30
             /\ now \in {18 * 60 + 20, 18 * 60 + 25} => result = "ON"
             /\ now = 22 * 60 => result = "OFF"

\* a window whose times were carried past midnight, with a jitter drawn that
\* carries the on-time back before it, was evaluated
C25_Witness ==
    /\ pc = "evaluated"
    /\ Len(config.Schedules[1].Events) = 1
    /\ config.Schedules[1].Events[1].TurnOn = Sun("dusk", "+", 5, 30)
    /\ config.Schedules[1].Events[1].RandomOffset = MaxJitter
    /\ Drawn(1)
    /\ ResolvedTime(1, "On") = MinutesPerDay - 1
    /\ ResolvedTime(1, "Off") = 23 * 60 + 40 + MaxJitter
    /\ result = "ON"


\* the coordinates by the stated precedence: those of the device, else those
\* of the map link, else Latitude and Longitude, else 0.0, 0.0
ByPrecedence(loc_conf, shelly_loc) ==
    IF /\ loc_conf.UseShellyDevice \notin {Absent, None, ""}
       /\ shelly_loc.status = "ok"
       /\ shelly_loc.lat # None
       /\ shelly_loc.lon # None
    THEN [lat |-> shelly_loc.lat, lon |-> shelly_loc.lon]
    ELSE IF loc_conf.GoogleMapsURL = UrlWithCoords
    THEN UrlCoords
    ELSE IF loc_conf.Latitude \notin {Absent, None} /\ loc_conf.Longitude \notin {Absent, None}
    THEN [lat |-> loc_conf.Latitude, lon |-> loc_conf.Longitude]
    ELSE DefaultCoords

\* C26: the coordinates come from the device, else from the map link, else
\* from Latitude and Longitude, falling through whenever a tier yields no
\* coordinates; 0.0, 0.0 is used only when no tier yields any.
C26_CoordinatePrecedence ==
    pc \in {"located", "raised_init"} =>
        /\ pc = "located"
        /\ result.loc.lat = ByPrecedence(config.Location, result.shelly).lat
        /\ result.loc.lon = ByPrecedence(config.Location, result.shelly).lon
        /\ dusk_dawn = sun(ByPrecedence(config.Location, result.shelly).lat, today)


\* event i names all days or names today's weekday
OnToday(i) ==
    \/ TheSchedule.Events[i].DaysOfWeek = <<"All">>
    \/ \E k \in 1..Len(TheSchedule.Events[i].DaysOfWeek) :
           TheSchedule.Events[i].DaysOfWeek[k] = WEEKDAY_ABBREVIATIONS[(today % 7) + 1]

\* C27: _evaluate_schedule equals the first-match reference: ON iff there is
\* an event i that passes the day-of-week filter, whose window contains now,
\* and no event j <= i that passes the day filter has a date-exclusion range
\* containing today; events filtered out by day contribute nothing; OFF
\* otherwise.
C27_FirstMatchReference ==
    pc = "evaluated" =>
        /\ result \in {"ON", "OFF"}
        /\ result = "ON" <=>
             \E i \in 1..Len(TheSchedule.Events) :
                 /\ OnToday(i)
                 /\ InWindow(i)
                 /\ \A j \in 1..i : OnToday(j) => ~TodayExcluded(j)

\* the first event is not for today, though today is inside its exclusion
\* range and now inside its window; the second is for today and matches: ON
C27_Witness ==
    /\ pc = "evaluated"
    /\ Len(TheSchedule.Events) = 2
    /\ ~OnToday(1) /\ TodayExcluded(1) /\ InWindow(1)
    /\ OnToday(2) /\ ~TodayExcluded(2) /\ InWindow(2)
    /\ result = "ON"


\* event i is the first event for today with an exclusion range containing
\* today, and no earlier event for today has a window containing now
ReachedExcluded(i) ==
    /\ OnToday(i)
    /\ TodayExcluded(i)
    /\ \A j \in 1..(i - 1) :
         OnToday(j) => /\ ~TodayExcluded(j)
                       /\ OffsetsCached(j)
                       /\ ~InWindow(j)

\* C28: when the loop reaches an event for today whose date-exclusion range
\* contains today, the evaluation returns OFF for the whole output at that
\* event and does not evaluate that event's times nor any later event: no
\* offset of that event or of a later one is drawn.
C28_ExclusionEndsEvaluation ==
    [][(pc' = "evaluated" /\ \E i \in 1..Len(TheSchedule.Events) : ReachedExcluded(i)') =>
        /\ result' = "OFF"
        /\ \A i \in 1..Len(TheSchedule.Events) :
             ReachedExcluded(i)' =>
                \A key \in DOMAIN offset_cache' :
                    key[3] >= i - 1 => key \in DOMAIN offset_cache]_vars

\* the first event is excluded today; the second has a random offset and a
\* window containing now, and none of its offsets was drawn: OFF
C28_Witness ==
    /\ pc = "evaluated"
    /\ Len(TheSchedule.Events) = 2
    /\ ReachedExcluded(1)
    /\ OnToday(2) /\ ~TodayExcluded(2)
    /\ TheSchedule.Events[2].RandomOffset # 0
    /\ now = 7 * 60
    /\ DOMAIN offset_cache = {}
    /\ result = "OFF"


\* event i has a range without a usable StartDate / EndDate
HasBadRange(i) ==
    \E k \in 1..Len(TheSchedule.Events[i].DatesOff) : ~TheSchedule.Events[i].DatesOff[k].ok

\* a range of event i that can be read contains today
GoodRangeToday(i) ==
    \E k \in 1..Len(TheSchedule.Events[i].DatesOff) :
        LET rng == TheSchedule.Events[i].DatesOff[k]
        IN  rng.ok /\ rng.StartDate <= today /\ today <= rng.EndDate

\* the loop comes to event i: it is for today, and no earlier event for today
\* is excluded or has a window containing now
LoopReaches(i) ==
    /\ OnToday(i)
    /\ \A j \in 1..(i - 1) : OnToday(j) => (~GoodRangeToday(j) /\ ~InWindow(j))

\* what the events after i give: ON at the first event for today whose
\* window contains now, unless an event for today up to it is excluded
LaterEventsOn(i) ==
    \E k \in (i + 1)..Len(TheSchedule.Events) :
        /\ OnToday(k)
        /\ InWindow(k)
        /\ \A j \in (i + 1)..k : OnToday(j) => ~GoodRangeToday(j)

\* C29: a DatesOff range whose StartDate / EndDate is missing or is no date
\* is ignored on its own: the evaluation does not abort, the remaining ranges
\* of the same event are still checked (OFF when one contains today), and if
\* none matches, the window of the event and the later events are evaluated
\* as usual.
C29_BadRangeIgnored ==
    /\ pc # "fatal"
    /\ pc = "evaluated" =>
         \A i \in 1..Len(TheSchedule.Events) :
             (HasBadRange(i) /\ LoopReaches(i)) =>
                 result = IF GoodRangeToday(i) THEN "OFF"
                          ELSE IF InWindow(i) THEN "ON"
                          ELSE IF LaterEventsOn(i) THEN "ON"
                          ELSE "OFF"

\* the first event has a bad range followed by one that does not contain
\* today and its window does not contain now; the second event matches: ON
C29_Witness ==
    /\ pc = "evaluated"
    /\ Len(TheSchedule.Events) = 2
    /\ HasBadRange(1) /\ LoopReaches(1) /\ ~GoodRangeToday(1) /\ ~InWindow(1)
    /\ LaterEventsOn(1)
    /\ result = "ON"


\* the jitter applied to the times of the event of S1 in the evaluation just
\* made: the value the cache holds under today's key
Applied(mode) == offset_cache[<<DateStr(today), "S1", 0, mode>>]

\* C30: every jitter delta _parse_time applies lies in
\* [-RandomOffset, +RandomOffset] for the RandomOffset passed in that call,
\* also a delta that was cached before a reload changed the RandomOffset or
\* that came from the state file.
C30_JitterWithinBound ==
    (pc = "reconcile" /\ TheSchedule.Events[1].RandomOffset # 0) =>
        \A mode \in {"On", "Off"} :
            /\ Applied(mode) <= TheSchedule.Events[1].RandomOffset
            /\ Applied(mode) >= 0 - TheSchedule.Events[1].RandomOffset


\* C31: at every schedule evaluation the dawn and dusk in use are those of
\* the calendar day of the evaluation, also in a run that passes midnight
\* without a change of the configuration: the evaluation just made (the loop
\* is about to reconcile) resolved its times from the dawn and dusk of today.
C31_DuskDawnOfToday ==
    pc = "reconcile" =>
        /\ dusk_dawn.dusk = 18 * 60 + 30 - today
        /\ dusk_dawn.dawn = 5 * 60 + 40 + today


\* what evaluations of the schedule from the inputs of this state can return
Evaluations ==
    _evaluate_schedule(TheSchedule, now, WeekdayStr(today), today, dusk_dawn, offset_cache)

\* C32 as claimed: two evaluations of the same schedule with the same
\* configuration, time, date and an identical offset cache, also a cache
\* without an entry for a jittered event, return the same result and leave
\* identical caches: whatever an evaluation returns, every evaluation from
\* the same inputs returns the same.
C32_DeterministicAlways ==
    [][pc' = "evaluated" =>
        \A out \in Evaluations : out.result = result' /\ out.cache = offset_cache']_vars

\* C32 amended: two evaluations with the same configuration, time, date and
\* an identical offset cache that holds today's offsets of every jittered
\* event of the schedule return the same result and leave the cache as it is.
C32_DeterministicWhenCached ==
    [][(pc' = "evaluated" /\ \A i \in 1..Len(TheSchedule.Events) : OffsetsCached(i)) =>
        /\ \A out \in Evaluations : out.result = result' /\ out.cache = offset_cache'
        /\ offset_cache' = offset_cache]_vars

\* a jittered event was evaluated with its offsets in the cache
C32_Witness ==
    /\ pc = "evaluated"
    /\ Len(TheSchedule.Events) = 1
    /\ TheSchedule.Events[1].RandomOffset # 0
    /\ OffsetsCached(1)
    /\ Cardinality(Evaluations) = 1
    /\ result = "ON"


\* the schedule name with the target field renamed: S1 is I1, S2 is I2
AsInput(schedule) ==
    CASE schedule = "S1" -> "I1"
      [] schedule = "S2" -> "I2"
      [] OTHER -> schedule

\* C33: the schedule mapper and the input mapper are the same algorithm:
\* for the known outputs and a rule list (several default rules, none, or no
\* rules at all) the input map is the schedule map of the same rules with
\* the target field renamed.
C33_MappersAgree ==
    pc \in {"init_eval", "check"} =>
        /\ Len(input_map) = Len(schedule_map)
        /\ \A i \in 1..Len(schedule_map) :
             /\ input_map[i][1] = schedule_map[i][1]
             /\ input_map[i][2] = AsInput(schedule_map[i][2])


\* C34: reconciliation is idempotent across cycles: when the devices obey
\* the commands and nothing changes between two consecutive cycles (begun by
\* the timer or by a wake), a pass that follows a completed pass issues no
\* command and records no event.
C34_SecondPassIdle ==
    [][(pc = "reconcile" /\ pc' = "save" /\ pass_status = "done" /\ pass_status' = "done") =>
        /\ commands' = << >>
        /\ switch_events' = switch_events
        /\ device' = device]_vars

\* a pass that was begun by a webhook call issued no command, after an
\* earlier pass had switched an output and recorded the event
C34_Witness ==
    /\ pc = "save"
    /\ pass_status = "done"
    /\ commands = << >>
    /\ Len(switch_events) = 1
    /\ Len(switch_events[1].Events) >= 1
    /\ wakes.early >= 1


\* the events of the history, bucket by bucket
Recorded ==
    UNION { { switch_events[b].Events[n] : n \in 1..Len(switch_events[b].Events) } :
            b \in 1..Len(switch_events) }

\* C35: every event of the history has exactly one cause: exactly one of
\* its Schedule and its Input is not null, and an event caused by an input
\* carries no schedule name (and switches the output ON).
C35_OneCausePerEvent ==
    \A e \in Recorded :
        /\ (e.Schedule = None) # (e.Input = None)
        /\ e.Input # None => (e.Schedule = None /\ e.State = "ON")
        /\ e.Schedule # None => e.Schedule \in {"S1", "S2"}

\* one pass recorded an event caused by the input I1 and one caused by the
\* schedule S1
C35_Witness ==
    /\ pc = "save"
    /\ \E e \in Recorded : e.Input = "I1" /\ e.Schedule = None
    /\ \E e \in Recorded : e.Schedule = "S1" /\ e.Input = None


\* C36: the loop consumes the payload a webhook call stashed before it
\* clears the wake signal, once per wake: whenever the loop is blocked in the
\* wait with the signal clear, no payload of an earlier call is left stashed.
C36_PayloadConsumed ==
    (pc = "wait" /\ ~wake_event) => webhook_args = None


\* C37: the webhook listener changes only the wake signal and the payload
\* slot: a step in which a webhook request is handled leaves the switch
\* states, the offset cache, the history, the schedule map and the input map
\* (and the position of the loop, the devices and the state file) as they are.
C37_ListenerTouchesOnlyWake ==
    [][wakes'.triggers # wakes.triggers =>
        /\ switch_states' = switch_states
        /\ offset_cache' = offset_cache
        /\ switch_events' = switch_events
        /\ schedule_map' = schedule_map
        /\ input_map' = input_map
        /\ pc' = pc
        /\ device' = device
        /\ state_file' = state_file]_vars

\* a request was handled while the loop was between its evaluation and its
\* reconciliation, with switch states evaluated and a history recorded
C37_Witness ==
    /\ pc = "reconcile"
    /\ wakes.unseen
    /\ webhook_args # None
    /\ wake_event
    /\ Len(switch_states) = 1
    /\ Len(switch_events) >= 1


\* event e of the bucket dated date is in the history after the step
StillRecorded(date, e) ==
    \E b \in 1..Len(switch_events') :
        /\ switch_events'[b].Date = date
        /\ \E n \in 1..Len(switch_events'[b].Events) : switch_events'[b].Events[n] = e

\* C38: a reload of the configuration loses no history: every event of the
\* history in memory is still there after reload_config / _initialise has
\* replaced the history by the content of the state file, unless its bucket
\* is older than the retention window.
C38_ReloadKeepsHistory ==
    [][(pc = "check" /\ pc' = "evaluate" /\ config_changed) =>
        \A b \in 1..Len(switch_events) :
            \/ LexLess(switch_events[b].Date, DateStr(today - config'.MaxDays))
            \/ \A n \in 1..Len(switch_events[b].Events) :
                   StillRecorded(switch_events[b].Date, switch_events[b].Events[n])]_vars


\* C39: no change of the configuration is missed: while the loop runs, a
\* configuration file that differs from the configuration in memory (an edit
\* not yet applied, one made during a reload included) is reported by the
\* change probe at the next check, which re-initializes.
C39_PendingChangeReported ==
    (pc \in {"check", "evaluate", "reconcile", "save", "wait", "woken", "heartbeat"}
        /\ config_file # config) => config_changed

====
